---------------------------- MODULE Spec2Model ----------------------------
(***************************************************************************)
(* AD-Census stereo matcher: ADCensusStereo (Initialize / Match / Reset),  *)
(* CrossAggregator, ScanlineOptimizer, the two disparity pickers and       *)
(* MultiStepRefiner.                                                       *)
(*                                                                         *)
(* Buffers are flat arrays indexed from 0, addressed with the index        *)
(* arithmetic of the source (y * width + x, ... + d).  float32 values are  *)
(* fixed-point numbers in units of 1 / Scale: sums and differences are     *)
(* exact and quotients are rounded to the nearest unit.                    *)
(***************************************************************************)
EXTENDS Integers, Sequences, FiniteSets, TLC

VARIABLES
    width_, height_, option_, is_initialized_,   \* ADCensusStereo
    disp_left_, disp_right_,                     \* ADCensusStereo buffers
    img_left_, img_right_,                       \* image pointers of the last Match
    cost_computer_,                              \* CostComputer member
    aggregator_,                                 \* CrossAggregator member
    refiner_,                                    \* MultiStepRefiner member
    out_disp,                                    \* the caller's output buffer
    call                                         \* the last call: name, result, stages run

vars == <<width_, height_, option_, is_initialized_, disp_left_, disp_right_,
          img_left_, img_right_, cost_computer_, aggregator_, refiner_,
          out_disp, call>>

-----------------------------------------------------------------------------
(* Integer helpers *)

Abs(i) == IF i < 0 THEN -i ELSE i
Min(a, b) == IF a < b THEN a ELSE b
Max(a, b) == IF a > b THEN a ELSE b

\* An empty buffer (nullptr, or a vector of size 0).
Null == << >>

\* The array f, with every element evaluated once (f itself, as a stored array).
Stored(f) == f @@ << >>

\* A flat array of n copies of v, indexed 0 .. n-1.
Fill(n, v) == Stored([i \in 0 .. (n - 1) |-> v])

\* F(lo) + ... + F(hi), accumulated from lo upwards.
RECURSIVE SumTo(_, _, _, _)
SumTo(F(_), lo, hi, acc) == IF lo > hi THEN acc ELSE SumTo(F, lo + 1, hi, acc + F(lo))

-----------------------------------------------------------------------------
(* float32 *)

\* A finite float32 is an integer number of units of 1 / Scale.
Scale == 1024

\* +infinity, -infinity and NaN.
Invalid_Float == 1073741824
NegInf == -Invalid_Float
NaN == Invalid_Float + 1

IsFinite(a) == a # Invalid_Float /\ a # NegInf /\ a # NaN

\* n / d (d > 0) to the nearest integer, halfway cases away from zero.
RoundDiv(n, d) ==
    IF n >= 0 THEN (2 * n + d) \div (2 * d) ELSE -((2 * (-n) + d) \div (2 * d))

\* The float32 nearest to n / d, and to the integer i.
FRat(n, d) == RoundDiv(n * Scale, d)
Flt(i) == i * Scale

Large_Float == Flt(99999)

\* a == b, a != b, a < b, a > b on float32 (every comparison with NaN is false,
\* except != which is true).
FEq(a, b) == a # NaN /\ b # NaN /\ a = b
FNe(a, b) == ~FEq(a, b)
FLt(a, b) == a # NaN /\ b # NaN /\ a < b
FGt(a, b) == FLt(b, a)
FLe(a, b) == a # NaN /\ b # NaN /\ a <= b
FGe(a, b) == FLe(b, a)

FNeg(a) == IF a = NaN THEN NaN ELSE -a

FAdd(a, b) ==
    IF a = NaN \/ b = NaN THEN NaN
    ELSE IF a = Invalid_Float THEN (IF b = NegInf THEN NaN ELSE Invalid_Float)
    ELSE IF a = NegInf THEN (IF b = Invalid_Float THEN NaN ELSE NegInf)
    ELSE IF b = Invalid_Float \/ b = NegInf THEN b
    ELSE a + b

FSub(a, b) == FAdd(a, FNeg(b))

FAbs(a) == IF a = NaN THEN NaN ELSE Abs(a)

\* a * k and a / k for an integer k > 0.
FMulInt(a, k) == IF IsFinite(a) THEN a * k ELSE a
FDivInt(a, k) == IF IsFinite(a) THEN RoundDiv(a, k) ELSE a

\* a / b for finite a >= 0 and b > 0: the integer part, then the fraction (with
\* the divisor brought to whole units first when it is too large to scale).
FDivPos(a, b) ==
    (a \div b) * Scale +
    (IF b < 1048576 THEN RoundDiv((a % b) * Scale, b)
     ELSE RoundDiv(a % b, RoundDiv(b, Scale)))

\* a / b for finite a and finite b # 0.
FDiv(a, b) ==
    IF (a < 0) = (b < 0) THEN FDivPos(Abs(a), Abs(b)) ELSE -FDivPos(Abs(a), Abs(b))

\* std::min(a, b): b if b < a, else a.
FMin(a, b) == IF FLt(b, a) THEN b ELSE a

\* lround of a finite float32: to the nearest integer, halfway cases away from zero.
lround(a) == RoundDiv(a, Scale)

-----------------------------------------------------------------------------
(* adcensus_types.h / adcensus_util.h (not among the sources) *)

MAX_ARM_LENGTH == 255

\* ADColor(b, g, r) is the triple <<b, g, r>>.
ColorDist(c1, c2) ==
    Max(Abs(c1[1] - c2[1]), Max(Abs(c1[2] - c2[2]), Abs(c1[3] - c2[3])))

\* uint8 increment of an arm length.
IncU8(v) == (v + 1) % 256

-----------------------------------------------------------------------------
(* CrossAggregator *)

\* HArmLoop running one iteration more than min(cross_L1_, MAX_ARM_LENGTH).
RECURSIVE HArmLoopOneMore(_, _, _, _, _, _, _, _)
HArmLoopOneMore(ag, img, x, y, k, n, color_last, len) ==
    LET dir    == IF k = 0 THEN -1 ELSE 1
        xn     == x + dir * (n + 1)
        color0 == img[y * ag.width_ + x]
    IN IF ~(n <= Min(ag.cross_L1_, MAX_ARM_LENGTH)) THEN len
       ELSE IF k = 0 /\ xn < 0 THEN len
       ELSE IF k = 1 /\ xn = ag.width_ THEN len
       ELSE LET color       == img[y * ag.width_ + xn]
                color_dist1 == ColorDist(color, color0)
            IN IF color_dist1 >= ag.cross_t1_ THEN len
               ELSE IF n > 0 /\ ColorDist(color, color_last) >= ag.cross_t1_ THEN len
               ELSE IF n + 1 > ag.cross_L2_ /\ color_dist1 >= ag.cross_t2_ THEN len
               ELSE HArmLoopOneMore(ag, img, x, y, k, n + 1, color, IncU8(len))

\* The inner for loop of FindHorizontalArm for direction k (0: left, dir = -1;
\* 1: right, dir = +1), entered at iteration n with xn = x + dir * (n + 1).
RECURSIVE HArmLoop(_, _, _, _, _, _, _, _)
HArmLoop(ag, img, x, y, k, n, color_last, len) ==
    LET dir    == IF k = 0 THEN -1 ELSE 1
        xn     == x + dir * (n + 1)
        color0 == img[y * ag.width_ + x]
    IN IF ~(n < Min(ag.cross_L1_, MAX_ARM_LENGTH)) THEN len
       ELSE IF k = 0 /\ xn < 0 THEN len
       ELSE IF k = 1 /\ xn = ag.width_ THEN len
       ELSE LET color       == img[y * ag.width_ + xn]
                color_dist1 == ColorDist(color, color0)
            IN IF color_dist1 >= ag.cross_t1_ THEN len
               ELSE IF n > 0 /\ ColorDist(color, color_last) >= ag.cross_t1_ THEN len
               ELSE IF n + 1 > ag.cross_L2_ /\ color_dist1 >= ag.cross_t2_ THEN len
               ELSE HArmLoop(ag, img, x, y, k, n + 1, color, IncU8(len))

FindHorizontalArm(ag, img, x, y) ==
    LET color0 == img[y * ag.width_ + x]
    IN [left  |-> HArmLoop(ag, img, x, y, 0, 0, color0, 0),
        right |-> HArmLoop(ag, img, x, y, 1, 0, color0, 0)]

\* VArmLoop applying cross_t2_ from iteration cross_L2_ + 1 on instead of
\* cross_L2_.
RECURSIVE VArmLoopLate(_, _, _, _, _, _, _, _)
VArmLoopLate(ag, img, x, y, k, n, color_last, len) ==
    LET dir    == IF k = 0 THEN -1 ELSE 1
        yn     == y + dir * (n + 1)
        color0 == img[y * ag.width_ + x]
    IN IF ~(n < Min(ag.cross_L1_, MAX_ARM_LENGTH)) THEN len
       ELSE IF k = 0 /\ yn < 0 THEN len
       ELSE IF k = 1 /\ yn = ag.height_ THEN len
       ELSE LET color       == img[yn * ag.width_ + x]
                color_dist1 == ColorDist(color, color0)
            IN IF color_dist1 >= ag.cross_t1_ THEN len
               ELSE IF n > 0 /\ ColorDist(color, color_last) >= ag.cross_t1_ THEN len
               ELSE IF n > ag.cross_L2_ /\ color_dist1 >= ag.cross_t2_ THEN len
               ELSE VArmLoopLate(ag, img, x, y, k, n + 1, color, IncU8(len))

\* The inner for loop of FindVerticalArm for direction k (0: up, 1: down),
\* entered at iteration n with yn = y + dir * (n + 1).
RECURSIVE VArmLoop(_, _, _, _, _, _, _, _)
VArmLoop(ag, img, x, y, k, n, color_last, len) ==
    LET dir    == IF k = 0 THEN -1 ELSE 1
        yn     == y + dir * (n + 1)
        color0 == img[y * ag.width_ + x]
    IN IF ~(n < Min(ag.cross_L1_, MAX_ARM_LENGTH)) THEN len
       ELSE IF k = 0 /\ yn < 0 THEN len
       ELSE IF k = 1 /\ yn = ag.height_ THEN len
       ELSE LET color       == img[yn * ag.width_ + x]
                color_dist1 == ColorDist(color, color0)
            IN IF color_dist1 >= ag.cross_t1_ THEN len
               ELSE IF n > 0 /\ ColorDist(color, color_last) >= ag.cross_t1_ THEN len
               ELSE IF n + 1 > ag.cross_L2_ /\ color_dist1 >= ag.cross_t2_ THEN len
               ELSE VArmLoop(ag, img, x, y, k, n + 1, color, IncU8(len))

FindVerticalArm(ag, img, x, y) ==
    LET color0 == img[y * ag.width_ + x]
    IN [top    |-> VArmLoop(ag, img, x, y, 0, 0, color0, 0),
        bottom |-> VArmLoop(ag, img, x, y, 1, 0, color0, 0)]

\* vec_cross_arms_ after BuildArms: one CrossArm per pixel, at y * width_ + x.
BuildArms(ag, img) ==
    Stored([i \in 0 .. (ag.width_ * ag.height_ - 1) |->
        LET x == i % ag.width_
            y == i \div ag.width_
            h == FindHorizontalArm(ag, img, x, y)
            v == FindVerticalArm(ag, img, x, y)
        IN [left |-> h.left, right |-> h.right, top |-> v.top, bottom |-> v.bottom]])

\* sum of F(lo) .. F(hi) for float32 terms, accumulated from lo upwards.
RECURSIVE FSumTo(_, _, _, _)
FSumTo(F(_), lo, hi, acc) == IF lo > hi THEN acc ELSE FSumTo(F, lo + 1, hi, FAdd(acc, F(lo)))

\* Pass k = 0 counting one for every pixel whatever its arms.
SupCountPass1Ones(ag, arms, horizontal_first) ==
    Fill(ag.width_ * ag.height_, 1)

\* ComputeSupPixelCount, pass k = 0: vec_sup_count_tmp_.
SupCountPass1(ag, arms, horizontal_first) ==
    Stored([i \in 0 .. (ag.width_ * ag.height_ - 1) |->
        LET arm == arms[i]
        IN IF horizontal_first
           THEN SumTo(LAMBDA t : 1, -arm.left, arm.right, 0)
           ELSE SumTo(LAMBDA t : 1, -arm.top, arm.bottom, 0)])

\* ComputeSupPixelCount, pass k = 1: vec_sup_count_[id].
SupCountPass2(ag, arms, horizontal_first) ==
    LET tmp == SupCountPass1(ag, arms, horizontal_first)
    IN Stored([i \in 0 .. (ag.width_ * ag.height_ - 1) |->
        LET arm == arms[i]
            x   == i % ag.width_
            y   == i \div ag.width_
        IN IF horizontal_first
           THEN SumTo(LAMBDA t : tmp[(y + t) * ag.width_ + x], -arm.top, arm.bottom, 0)
           ELSE SumTo(LAMBDA t : tmp[y * ag.width_ + x + t], -arm.left, arm.right, 0)])

\* vec_sup_count_: <<horizontal-first counts, vertical-first counts>>.
ComputeSupPixelCount(ag, arms) ==
    <<SupCountPass2(ag, arms, TRUE), SupCountPass2(ag, arms, FALSE)>>

\* cost_aggr_ after AggregateInArms(disparity, horizontal_first).
AggregateInArms(ag, disparity, horizontal_first) ==
    LET disp       == disparity - ag.min_disparity_
        disp_range == ag.max_disparity_ - ag.min_disparity_
        w          == ag.width_
        npix       == ag.width_ * ag.height_
        arms       == ag.vec_cross_arms_
        ct_id      == IF horizontal_first THEN 1 ELSE 2
        tmp0 == Stored([i \in 0 .. (npix - 1) |-> ag.cost_aggr_[i * disp_range + disp]])
        tmp1 == Stored([i \in 0 .. (npix - 1) |->
                    LET arm == arms[i]
                        x   == i % w
                        y   == i \div w
                    IN IF horizontal_first
                       THEN FSumTo(LAMBDA t : tmp0[y * w + x + t], -arm.left, arm.right, Flt(0))
                       ELSE FSumTo(LAMBDA t : tmp0[(y + t) * w + x], -arm.top, arm.bottom, Flt(0))])
        out  == Stored([i \in 0 .. (npix - 1) |->
                    LET arm  == arms[i]
                        x    == i % w
                        y    == i \div w
                        cost == IF horizontal_first
                                THEN FSumTo(LAMBDA t : tmp1[(y + t) * w + x], -arm.top, arm.bottom, Flt(0))
                                ELSE FSumTo(LAMBDA t : tmp1[y * w + x + t], -arm.left, arm.right, Flt(0))
                    IN FDivInt(cost, ag.vec_sup_count_[ct_id][i])])
    IN IF disparity < ag.min_disparity_ \/ disparity >= ag.max_disparity_ THEN ag.cost_aggr_
       ELSE IF disp_range <= 0 THEN ag.cost_aggr_
       ELSE Stored([j \in DOMAIN ag.cost_aggr_ |->
                IF j % disp_range = disp /\ j \div disp_range < npix
                THEN out[j \div disp_range] ELSE ag.cost_aggr_[j]])

\* The loops of Aggregate from iteration k, disparity d on.
RECURSIVE AggregateLoop(_, _, _, _, _)
AggregateLoop(ag, num_iters, k, d, horizontal_first) ==
    IF ~(k < num_iters) THEN ag
    ELSE IF ~(d < ag.max_disparity_)
         THEN AggregateLoop(ag, num_iters, k + 1, ag.min_disparity_, ~horizontal_first)
    ELSE AggregateLoop([ag EXCEPT !.cost_aggr_ = AggregateInArms(ag, d, horizontal_first)],
                       num_iters, k, d + 1, horizontal_first)

\* The aggregator after Aggregate(num_iters) on the left image img and the
\* initial cost volume cost_init.
Aggregate(ag, img, cost_init, num_iters) ==
    IF ~ag.is_initialized_ THEN ag
    ELSE LET disp_range == ag.max_disparity_ - ag.min_disparity_
             arms == BuildArms(ag, img)
             ag1  == [ag EXCEPT !.vec_cross_arms_ = arms,
                                !.vec_sup_count_ = ComputeSupPixelCount(ag, arms),
                                !.cost_aggr_ = Stored([j \in DOMAIN ag.cost_aggr_ |->
                                    IF j < ag.width_ * ag.height_ * disp_range
                                    THEN cost_init[j] ELSE ag.cost_aggr_[j]])]
         IN AggregateLoop(ag1, num_iters, 0, ag.min_disparity_, TRUE)

-----------------------------------------------------------------------------
(* ScanlineOptimizer *)

\* The penalties <<P1, P2>> chosen from d1 and d2.
Penalties(so, d1, d2) ==
    IF d1 < so.so_tso_ /\ d2 < so.so_tso_ THEN <<so.so_p1_, so.so_p2_>>
    ELSE IF d1 < so.so_tso_ /\ d2 >= so.so_tso_
         THEN <<FDivInt(so.so_p1_, 4), FDivInt(so.so_p2_, 4)>>
    ELSE IF d1 >= so.so_tso_ /\ d2 < so.so_tso_
         THEN <<FDivInt(so.so_p1_, 4), FDivInt(so.so_p2_, 4)>>
    ELSE IF d1 >= so.so_tso_ /\ d2 >= so.so_tso_
         THEN <<FDivInt(so.so_p1_, 10), FDivInt(so.so_p2_, 10)>>
    ELSE <<Flt(0), Flt(0)>>

\* The path cost as the comment above it has it, less the minimum of the
\* previous position and not halved.
PathCostLessMin(cost, last, mincost_last_path, d, disp_range, P) ==
    FSub(FAdd(cost, FMin(FMin(last[d],
                              FAdd(IF d = 0 THEN Large_Float ELSE last[d - 1], P[1])),
                         FMin(FAdd(IF d = disp_range - 1 THEN Large_Float ELSE last[d + 1],
                                   P[1]),
                              FAdd(mincost_last_path, P[2])))),
         mincost_last_path)

\* cost_s for disparity index d: cost is the source cost, last the path costs of
\* the previous position (cost_last_path[1 .. disp_range], padded on both sides
\* with Large_Float), mincost_last_path their minimum.
PathCost(cost, last, mincost_last_path, d, disp_range, P) ==
    LET l1 == last[d]
        l2 == FAdd(IF d = 0 THEN Large_Float ELSE last[d - 1], P[1])
        l3 == FAdd(IF d = disp_range - 1 THEN Large_Float ELSE last[d + 1], P[1])
        l4 == FAdd(mincost_last_path, P[2])
    IN FDivInt(FAdd(cost, FMin(FMin(l1, l2), FMin(l3, l4))), 2)

\* The minimum of Large_Float and the elements of a cost vector.
RECURSIVE MinOfPath(_, _, _)
MinOfPath(v, d, acc) ==
    IF d \notin DOMAIN v THEN acc ELSE MinOfPath(v, d + 1, FMin(acc, v[d]))

\* The loop over d at one position of a left/right sweep: d2 is declared before
\* the loop and assigned only when xr is inside (0, width - 1).
RECURSIVE LRDispLoop(_, _, _, _, _, _, _, _, _, _, _)
LRDispLoop(so, imgR, src, last, mincost_last_path, x, y, direction, d1, d, st) ==
    LET disp_range == so.max_disparity_ - so.min_disparity_
        w  == so.width_
        xr == x - d - so.min_disparity_
        d2 == IF xr > 0 /\ xr < w - 1
              THEN ColorDist(imgR[y * w + xr], imgR[y * w + xr - direction])
              ELSE st.d2
        cost_s == PathCost(src[(y * w + x) * disp_range + d], last, mincost_last_path,
                           d, disp_range, Penalties(so, d1, d2))
    IN IF ~(d < disp_range) THEN st
       ELSE LRDispLoop(so, imgR, src, last, mincost_last_path, x, y, direction, d1, d + 1,
                       [d2 |-> d2, path |-> st.path @@ (d :> cost_s),
                        min_cost |-> FMin(st.min_cost, cost_s)])

\* The loop over j of a left/right sweep on row y; acc maps each column already
\* visited to the path costs written to the destination.
RECURSIVE LRPosLoop(_, _, _, _, _, _, _, _, _, _, _, _)
LRPosLoop(so, imgL, imgR, src, y, direction, j, x, color_last, last, mincost_last_path, acc) ==
    IF ~(j < so.width_ - 1) THEN acc
    ELSE LET color == imgL[y * so.width_ + x]
             d1    == ColorDist(color, color_last)
             st    == LRDispLoop(so, imgR, src, last, mincost_last_path, x, y, direction, d1, 0,
                                 [d2 |-> d1, path |-> << >>, min_cost |-> Large_Float])
         IN LRPosLoop(so, imgL, imgR, src, y, direction, j + 1, x + direction, color,
                      st.path, st.min_cost, acc @@ (x :> st.path))

\* The destination volume after ScanlineOptimizeLeftRight(src, dst, is_forward).
ScanlineOptimizeLeftRight(so, imgL, imgR, src, is_forward) ==
    LET disp_range == so.max_disparity_ - so.min_disparity_
        w          == so.width_
        direction  == IF is_forward THEN 1 ELSE -1
        x0         == IF is_forward THEN 0 ELSE w - 1
        rows == Stored([y \in 0 .. (so.height_ - 1) |->
                    LET seed == Stored([d \in 0 .. (disp_range - 1) |->
                                    src[(y * w + x0) * disp_range + d]])
                    IN LRPosLoop(so, imgL, imgR, src, y, direction, 0, x0 + direction,
                                 imgL[y * w + x0], seed, MinOfPath(seed, 0, Large_Float),
                                 x0 :> seed)])
    IN Stored([i \in 0 .. (w * so.height_ * disp_range - 1) |->
            rows[i \div (w * disp_range)][(i \div disp_range) % w][i % disp_range]])

RECURSIVE UDDispLoop(_, _, _, _, _, _, _, _, _, _, _)
UDDispLoop(so, imgR, src, last, mincost_last_path, x, y, direction, d1, d, st) ==
    LET disp_range == so.max_disparity_ - so.min_disparity_
        w  == so.width_
        xr == x - d - so.min_disparity_
        d2 == IF xr > 0 /\ xr < w - 1
              THEN ColorDist(imgR[y * w + xr], imgR[(y - direction) * w + xr])
              ELSE st.d2
        cost_s == PathCost(src[(y * w + x) * disp_range + d], last, mincost_last_path,
                           d, disp_range, Penalties(so, d1, d2))
    IN IF ~(d < disp_range) THEN st
       ELSE UDDispLoop(so, imgR, src, last, mincost_last_path, x, y, direction, d1, d + 1,
                       [d2 |-> d2, path |-> st.path @@ (d :> cost_s),
                        min_cost |-> FMin(st.min_cost, cost_s)])

RECURSIVE UDPosLoop(_, _, _, _, _, _, _, _, _, _, _, _)
UDPosLoop(so, imgL, imgR, src, x, direction, i, y, color_last, last, mincost_last_path, acc) ==
    IF ~(i < so.height_ - 1) THEN acc
    ELSE LET color == imgL[y * so.width_ + x]
             d1    == ColorDist(color, color_last)
             st    == UDDispLoop(so, imgR, src, last, mincost_last_path, x, y, direction, d1, 0,
                                 [d2 |-> d1, path |-> << >>, min_cost |-> Large_Float])
         IN UDPosLoop(so, imgL, imgR, src, x, direction, i + 1, y + direction, color,
                      st.path, st.min_cost, acc @@ (y :> st.path))

\* The destination volume after ScanlineOptimizeUpDown(src, dst, is_forward).
ScanlineOptimizeUpDown(so, imgL, imgR, src, is_forward) ==
    LET disp_range == so.max_disparity_ - so.min_disparity_
        w          == so.width_
        direction  == IF is_forward THEN 1 ELSE -1
        y0         == IF is_forward THEN 0 ELSE so.height_ - 1
        cols == Stored([x \in 0 .. (w - 1) |->
                    LET seed == Stored([d \in 0 .. (disp_range - 1) |->
                                    src[(y0 * w + x) * disp_range + d]])
                    IN UDPosLoop(so, imgL, imgR, src, x, direction, 0, y0 + direction,
                                 imgL[y0 * w + x], seed, MinOfPath(seed, 0, Large_Float),
                                 y0 :> seed)])
    IN Stored([i \in 0 .. (w * so.height_ * disp_range - 1) |->
            cols[(i \div disp_range) % w][i \div (w * disp_range)][i % disp_range]])

\* Optimize with the two up/down sweeps before the two left/right ones.
OptimizeUpDownFirst(so, imgL, imgR, cost_init, cost_aggr) ==
    <<ScanlineOptimizeLeftRight(so, imgL, imgR,
          ScanlineOptimizeUpDown(so, imgL, imgR,
              ScanlineOptimizeUpDown(so, imgL, imgR, cost_aggr, TRUE), FALSE), TRUE),
      ScanlineOptimizeLeftRight(so, imgL, imgR,
          ScanlineOptimizeLeftRight(so, imgL, imgR,
              ScanlineOptimizeUpDown(so, imgL, imgR,
                  ScanlineOptimizeUpDown(so, imgL, imgR, cost_aggr, TRUE), FALSE), TRUE),
          FALSE)>>

\* <<cost_init_, cost_aggr_>> after the last sweep, which reads what the third
\* sweep left in cost_init_ and writes cost_aggr_.
OptimizeLastSweep(so, imgL, imgR, s3) ==
    <<s3, ScanlineOptimizeUpDown(so, imgL, imgR, s3, FALSE)>>

\* <<cost_init_, cost_aggr_>> after Optimize: the four sweeps, each reading the
\* buffer the previous one wrote.
Optimize(so, imgL, imgR, cost_init, cost_aggr) ==
    IF so.width_ <= 0 \/ so.height_ <= 0 \/ imgL = Null \/ imgR = Null
       \/ cost_init = Null \/ cost_aggr = Null
    THEN <<cost_init, cost_aggr>>
    ELSE OptimizeLastSweep(so, imgL, imgR,
             ScanlineOptimizeUpDown(so, imgL, imgR,
                 ScanlineOptimizeLeftRight(so, imgL, imgR,
                     ScanlineOptimizeLeftRight(so, imgL, imgR, cost_aggr, TRUE),
                     FALSE),
                 TRUE))

-----------------------------------------------------------------------------
(* ADCensusStereo: the disparity pickers *)

\* v[i]; a read outside the array yields junk (whatever lies in memory there).
Rd(v, i, junk) == IF i \in DOMAIN v THEN v[i] ELSE junk

\* The sub-pixel fit around best_disparity: cost_1 and cost_2 are the costs of
\* the neighbouring disparities, min_cost the cost of best_disparity.
SubPixel(best_disparity, cost_1, cost_2, min_cost) ==
    LET denom == FSub(FAdd(cost_1, cost_2), FMulInt(min_cost, 2))
    IN IF FNe(denom, Flt(0))
       THEN FAdd(Flt(best_disparity), FDiv(FSub(cost_1, cost_2), FMulInt(denom, 2)))
       ELSE Flt(best_disparity)

\* The loop over d of ComputeDisparity at pixel (j, i): st holds min_cost,
\* best_disparity and cost_local.
RECURSIVE WtaLoop(_, _, _, _, _, _, _, _)
WtaLoop(cost_ptr, width, min_disparity, max_disparity, i, j, d, st) ==
    LET disp_range == max_disparity - min_disparity
        d_idx      == d - min_disparity
        cost       == cost_ptr[i * width * disp_range + j * disp_range + d_idx]
    IN IF ~(d < max_disparity) THEN st
       ELSE WtaLoop(cost_ptr, width, min_disparity, max_disparity, i, j, d + 1,
                    [cost_local     |-> st.cost_local @@ (d_idx :> cost),
                     min_cost       |-> IF FGt(st.min_cost, cost) THEN cost ELSE st.min_cost,
                     best_disparity |-> IF FGt(st.min_cost, cost) THEN d
                                        ELSE st.best_disparity])

\* The value ComputeDisparity stores for pixel (j, i).
DisparityAt(cost_ptr, width, min_disparity, max_disparity, i, j, junk) ==
    LET st == WtaLoop(cost_ptr, width, min_disparity, max_disparity, i, j, min_disparity,
                      [cost_local |-> << >>, min_cost |-> Large_Float, best_disparity |-> 0])
        idx_1 == st.best_disparity - 1 - min_disparity
        idx_2 == st.best_disparity + 1 - min_disparity
    IN IF st.best_disparity = min_disparity \/ st.best_disparity = max_disparity - 1
       THEN Invalid_Float
       ELSE SubPixel(st.best_disparity, Rd(st.cost_local, idx_1, junk[1]),
                     Rd(st.cost_local, idx_2, junk[2]), st.min_cost)

\* ComputeDisparity leaving a pixel whose arg-min is at either end of the range
\* as it was.
ComputeDisparityKeep(disparity, cost_ptr, width, height, min_disparity, max_disparity, junk) ==
    Stored([k \in DOMAIN disparity |->
        LET d == DisparityAt(cost_ptr, width, min_disparity, max_disparity,
                             k \div width, k % width, junk)
        IN IF d = Invalid_Float THEN disparity[k] ELSE d])

\* disp_left_ after ComputeDisparity.
ComputeDisparity(disparity, cost_ptr, width, height, min_disparity, max_disparity, junk) ==
    IF max_disparity - min_disparity <= 0 THEN disparity
    ELSE Stored([k \in DOMAIN disparity |->
            IF width > 0 /\ k < width * height
            THEN DisparityAt(cost_ptr, width, min_disparity, max_disparity,
                             k \div width, k % width, junk)
            ELSE disparity[k]])

\* The loop over d of ComputeDisparityRight at right pixel (j, i).
RECURSIVE WtaRightLoop(_, _, _, _, _, _, _, _)
WtaRightLoop(cost_ptr, width, min_disparity, max_disparity, i, j, d, st) ==
    LET disp_range == max_disparity - min_disparity
        d_idx      == d - min_disparity
        col_left   == j + d
        cost       == cost_ptr[i * width * disp_range + col_left * disp_range + d_idx]
    IN IF ~(d < max_disparity) THEN st
       ELSE IF col_left >= 0 /\ col_left < width
       THEN WtaRightLoop(cost_ptr, width, min_disparity, max_disparity, i, j, d + 1,
                    [cost_local     |-> st.cost_local @@ (d_idx :> cost),
                     min_cost       |-> IF FGt(st.min_cost, cost) THEN cost ELSE st.min_cost,
                     best_disparity |-> IF FGt(st.min_cost, cost) THEN d
                                        ELSE st.best_disparity])
       ELSE WtaRightLoop(cost_ptr, width, min_disparity, max_disparity, i, j, d + 1,
                    [st EXCEPT !.cost_local = st.cost_local @@ (d_idx :> Large_Float)])

\* The value ComputeDisparityRight stores for right pixel (j, i).
DisparityRightAt(cost_ptr, width, min_disparity, max_disparity, i, j, junk) ==
    LET st == WtaRightLoop(cost_ptr, width, min_disparity, max_disparity, i, j, min_disparity,
                      [cost_local |-> << >>, min_cost |-> Large_Float, best_disparity |-> 0])
        idx_1 == st.best_disparity - 1 - min_disparity
        idx_2 == st.best_disparity + 1 - min_disparity
    IN IF st.best_disparity = min_disparity \/ st.best_disparity = max_disparity - 1
       THEN Flt(st.best_disparity)
       ELSE SubPixel(st.best_disparity, Rd(st.cost_local, idx_1, junk[1]),
                     Rd(st.cost_local, idx_2, junk[2]), st.min_cost)

\* disp_right_ after ComputeDisparityRight.
ComputeDisparityRight(disparity, cost_ptr, width, height, min_disparity, max_disparity, junk) ==
    IF max_disparity - min_disparity <= 0 THEN disparity
    ELSE Stored([k \in DOMAIN disparity |->
            IF width > 0 /\ k < width * height
            THEN DisparityRightAt(cost_ptr, width, min_disparity, max_disparity,
                                  k \div width, k % width, junk)
            ELSE disparity[k]])

\* Whether ComputeDisparityRight reads cost_local outside [0, disp_range) at
\* some pixel.
RightIndexOutside(cost_ptr, width, height, min_disparity, max_disparity) ==
    /\ max_disparity - min_disparity > 0
    /\ \E i \in 0 .. (height - 1), j \in 0 .. (width - 1) :
          LET st == WtaRightLoop(cost_ptr, width, min_disparity, max_disparity, i, j,
                                 min_disparity,
                                 [cost_local |-> << >>, min_cost |-> Large_Float,
                                  best_disparity |-> 0])
          IN /\ st.best_disparity # min_disparity
             /\ st.best_disparity # max_disparity - 1
             /\ \/ st.best_disparity - 1 - min_disparity \notin DOMAIN st.cost_local
                \/ st.best_disparity + 1 - min_disparity \notin DOMAIN st.cost_local

-----------------------------------------------------------------------------
(* MultiStepRefiner *)

\* A pixel of an outlier list is the pair <<x, y>> (first, second).

\* The loops of OutlierDetection from pixel k = y * width + x on; st holds
\* disp_left_ and the two lists as they are at that moment.
RECURSIVE OutlierLoop(_, _, _, _, _, _)
OutlierLoop(disp_right, width, height, threshold, k, st) ==
    LET x    == k % width
        y    == k \div width
        disp == st.disp_left_[y * width + x]
        col_right == lround(FSub(Flt(x), disp))
        disp_r == disp_right[y * width + col_right]
        col_rl == lround(FAdd(Flt(col_right), disp_r))
        disp_l == st.disp_left_[y * width + col_rl]
        next == OutlierLoop(disp_right, width, height, threshold, k + 1, st)
        mismatch == OutlierLoop(disp_right, width, height, threshold, k + 1,
                        [st EXCEPT !.disp_left_[y * width + x] = Invalid_Float,
                                   !.mismatches_ = Append(@, <<x, y>>)])
        occlusion == OutlierLoop(disp_right, width, height, threshold, k + 1,
                        [st EXCEPT !.disp_left_[y * width + x] = Invalid_Float,
                                   !.occlusions_ = Append(@, <<x, y>>)])
    IN IF ~(k < width * height) THEN st
       ELSE IF FEq(disp, Invalid_Float) THEN mismatch
       ELSE IF col_right >= 0 /\ col_right < width
            THEN IF FGt(FAbs(FSub(disp, disp_r)), threshold)
                 THEN IF col_rl > 0 /\ col_rl < width
                      THEN IF FGt(disp_l, disp) THEN occlusion ELSE mismatch
                      ELSE mismatch
                 ELSE next
            ELSE mismatch

\* OutlierDetection leaving out the first pixel of the map.
OutlierDetectionFromSecond(disp_left, disp_right, width, height, threshold) ==
    OutlierLoop(disp_right, width, height, threshold, 1,
                [disp_left_ |-> disp_left, occlusions_ |-> << >>, mismatches_ |-> << >>])

\* [disp_left_, occlusions_, mismatches_] after OutlierDetection.
OutlierDetection(disp_left, disp_right, width, height, threshold) ==
    OutlierLoop(disp_right, width, height, threshold, 0,
                [disp_left_ |-> disp_left, occlusions_ |-> << >>, mismatches_ |-> << >>])

\* histogram[b] after the two loops over the cross region of pixel (x, y).
VoteHistogram(rp, arms, disp_left, x, y) ==
    LET width == rp.width_
        arm   == arms[y * width + x]
    IN [b \in 0 .. (rp.max_disparity_ - rp.min_disparity_ - 1) |->
        SumTo(LAMBDA t :
            LET yt   == y + t
                arm2 == arms[yt * width + x]
            IN SumTo(LAMBDA s1 :
                   LET d == disp_left[yt * width + x + s1]
                   IN IF FNe(d, Invalid_Float) /\ lround(d) - rp.min_disparity_ = b
                      THEN 1 ELSE 0,
                   -arm2.left, arm2.right, 0),
            -arm.top, arm.bottom, 0)]

\* The loop over the histogram from bin d on: st holds best_disp, max_ht, count.
RECURSIVE PeakLoop(_, _, _)
PeakLoop(histogram, d, st) ==
    IF d \notin DOMAIN histogram THEN st
    ELSE PeakLoop(histogram, d + 1,
                  [best_disp |-> IF st.max_ht < histogram[d] THEN d ELSE st.best_disp,
                   max_ht    |-> IF st.max_ht < histogram[d] THEN histogram[d] ELSE st.max_ht,
                   count     |-> st.count + histogram[d]])

\* Whether some valid disparity in the cross region of (x, y) rounds to a bin
\* outside the histogram.
VoteOutside(rp, arms, disp_left, x, y) ==
    LET width == rp.width_
        arm   == arms[y * width + x]
    IN \E t \in (-arm.top) .. arm.bottom :
         \E s1 \in (-arms[(y + t) * width + x].left) .. arms[(y + t) * width + x].right :
            LET d == disp_left[(y + t) * width + x + s1]
            IN /\ FNe(d, Invalid_Float)
               /\ lround(d) - rp.min_disparity_ \notin
                      0 .. (rp.max_disparity_ - rp.min_disparity_ - 1)

\* The loop over trg_pixels from entry n on: st holds disp_left_ and ub (an
\* access outside a buffer has happened).
RECURSIVE VoteLoop(_, _, _, _, _)
VoteLoop(rp, arms, trg_pixels, n, st) ==
    IF n > Len(trg_pixels) THEN st
    ELSE LET x == trg_pixels[n][1]
             y == trg_pixels[n][2]
             k == y * rp.width_ + x
         IN IF k \notin DOMAIN st.disp_left_ \/ k \notin DOMAIN arms
            THEN VoteLoop(rp, arms, trg_pixels, n + 1, [st EXCEPT !.ub = TRUE])
            ELSE IF FNe(st.disp_left_[k], Invalid_Float)
            THEN VoteLoop(rp, arms, trg_pixels, n + 1, st)
            ELSE LET pk == PeakLoop(VoteHistogram(rp, arms, st.disp_left_, x, y), 0,
                                    [best_disp |-> 0, max_ht |-> 0, count |-> 0])
                     fill == /\ pk.max_ht > 0
                             /\ pk.count > rp.irv_ts_
                             /\ FGt(FDiv(Flt(pk.max_ht), Flt(pk.count)), rp.irv_th_)
                     out == VoteOutside(rp, arms, st.disp_left_, x, y)
                 IN VoteLoop(rp, arms, trg_pixels, n + 1,
                        [disp_left_ |-> IF fill
                                        THEN [st.disp_left_ EXCEPT
                                                 ![k] = Flt(pk.best_disp + rp.min_disparity_)]
                                        ELSE st.disp_left_,
                         ub |-> st.ub \/ out])

\* An erase loop that erases nothing.
EraseFilledNone(rp, disp_left, trg_pixels) == trg_pixels

\* trg_pixels after the erase loop: the entries whose disparity is still invalid.
EraseFilled(rp, disp_left, trg_pixels) ==
    SelectSeq(trg_pixels,
              LAMBDA pix : Rd(disp_left, pix[2] * rp.width_ + pix[1], Invalid_Float)
                           = Invalid_Float)

\* The loops of IterativeRegionVoting from iteration it, list k (0: mismatches_,
\* 1: occlusions_) on; st holds disp_left_, the two lists and ub.
RECURSIVE VotingLoop(_, _, _, _, _, _)
VotingLoop(rp, arms, num_iters, it, k, st) ==
    IF ~(it < num_iters) THEN st
    ELSE IF ~(k < 2) THEN VotingLoop(rp, arms, num_iters, it + 1, 0, st)
    ELSE LET trg_pixels == IF k = 0 THEN st.mismatches_ ELSE st.occlusions_
             v    == VoteLoop(rp, arms, trg_pixels, 1,
                              [disp_left_ |-> st.disp_left_, ub |-> st.ub])
             kept == EraseFilled(rp, v.disp_left_, trg_pixels)
         IN VotingLoop(rp, arms, num_iters, it, k + 1,
                [disp_left_  |-> v.disp_left_,
                 mismatches_ |-> IF k = 0 THEN kept ELSE st.mismatches_,
                 occlusions_ |-> IF k = 0 THEN st.occlusions_ ELSE kept,
                 ub          |-> v.ub])

\* [disp_left_, mismatches_, occlusions_, ub] after IterativeRegionVoting.
IterativeRegionVoting(rp, arms, st) ==
    IF rp.max_disparity_ - rp.min_disparity_ <= 0 THEN st
    ELSE VotingLoop(rp, arms, 5, 0, 0, st)

\* sin(ang) and cos(ang), times 1000000, for the 16 ray angles ang = s * (pi / 16)
\* accumulated in double from pi = 3.1415926f (s = 0 .. 15 at index s + 1).
SinTab == <<0, 195090, 382683, 555570, 707107, 831470, 923880, 980785,
            1000000, 980785, 923880, 831470, 707107, 555570, 382684, 195090>>
CosTab == <<1000000, 980785, 923880, 831470, 707107, 555570, 382683, 195090,
            0, -195090, -382683, -555570, -707107, -831470, -923879, -980785>>

\* lround(v + m * t / 1000000) for integers v and m.
RayStep(v, m, t) == v + RoundDiv(m * t, 1000000)

\* The loop over m along ray s from (x, y): the first valid disparity met, as
\* <<<<pixel index, disparity>>>>, or << >> when the ray ends without one.
RECURSIVE RayLoop(_, _, _, _, _, _, _, _)
RayLoop(disp_left, width, height, max_search_length, x, y, s, m) ==
    LET yy == RayStep(y, m, SinTab[s + 1])
        xx == RayStep(x, m, CosTab[s + 1])
    IN IF ~(m < max_search_length) THEN << >>
       ELSE IF yy < 0 \/ yy >= height \/ xx < 0 \/ xx >= width THEN << >>
       ELSE IF FNe(disp_left[yy * width + xx], Invalid_Float)
            THEN << <<yy * width + xx, disp_left[yy * width + xx]>> >>
       ELSE RayLoop(disp_left, width, height, max_search_length, x, y, s, m + 1)

\* disp_collects for pixel (x, y): the candidates of rays s .. 15, in ray order.
RECURSIVE DispCollects(_, _, _, _, _, _, _)
DispCollects(disp_left, width, height, max_search_length, x, y, s) ==
    IF ~(s < 16) THEN << >>
    ELSE RayLoop(disp_left, width, height, max_search_length, x, y, s, 1)
         \o DispCollects(disp_left, width, height, max_search_length, x, y, s + 1)

\* The sum of the absolute channel differences of two colours.
ColorL1(c1, c2) == Abs(c1[1] - c2[1]) + Abs(c1[2] - c2[2]) + Abs(c1[3] - c2[3])

\* The loop choosing the candidate whose colour is nearest to color: st holds
\* min_dist and d.
RECURSIVE NearestLoop(_, _, _, _, _)
NearestLoop(img, color, disp_collects, n, st) ==
    IF n > Len(disp_collects) THEN st
    ELSE LET dist == ColorL1(color, img[disp_collects[n][1]])
         IN NearestLoop(img, color, disp_collects, n + 1,
                        IF st.min_dist > dist
                        THEN [min_dist |-> dist, d |-> disp_collects[n][2]]
                        ELSE st)

\* The loop taking the minimum disparity of the candidates.
RECURSIVE MinDispLoop(_, _, _)
MinDispLoop(disp_collects, n, min_disp) ==
    IF n > Len(disp_collects) THEN min_disp
    ELSE MinDispLoop(disp_collects, n + 1, FMin(min_disp, disp_collects[n][2]))

\* fill_disps[n] for list k (0: mismatches_, 1: occlusions_): 0.0, the value the
\* vector is constructed with, when the pixel has no candidate.
FillDisp(rp, img, disp_left, k, pix) ==
    LET x == pix[1]
        y == pix[2]
        max_search_length == Max(Abs(rp.max_disparity_), Abs(rp.min_disparity_))
        disp_collects == DispCollects(disp_left, rp.width_, rp.height_,
                                      max_search_length, x, y, 0)
        color == Rd(img, y * rp.width_ + x, <<0, 0, 0>>)
    IN IF disp_collects = << >> THEN Flt(0)
       ELSE IF k = 0
            THEN NearestLoop(img, color, disp_collects, 1,
                             [min_dist |-> 9999, d |-> Flt(0)]).d
            ELSE MinDispLoop(disp_collects, 1, Large_Float)

\* The second loop over trg_pixels: every entry is written its fill_disps value.
RECURSIVE WriteFills(_, _, _, _, _)
WriteFills(rp, trg_pixels, fill_disps, n, st) ==
    IF n > Len(trg_pixels) THEN st
    ELSE LET k == trg_pixels[n][2] * rp.width_ + trg_pixels[n][1]
         IN WriteFills(rp, trg_pixels, fill_disps, n + 1,
                IF k \in DOMAIN st.disp_left_
                THEN [st EXCEPT !.disp_left_[k] = fill_disps[n]]
                ELSE [st EXCEPT !.ub = TRUE])

\* One round (k = 0: mismatches_, k = 1: occlusions_) of ProperInterpolation:
\* the fills are computed from disp_left_ as it is when the round starts.
InterpolateList(rp, img, trg_pixels, k, st) ==
    IF trg_pixels = << >> THEN st
    ELSE LET fill_disps == [n \in 1 .. Len(trg_pixels) |->
                               FillDisp(rp, img, st.disp_left_, k, trg_pixels[n])]
         IN WriteFills(rp, trg_pixels, fill_disps, 1, st)

\* [disp_left_, mismatches_, occlusions_, ub] after ProperInterpolation.
ProperInterpolation(rp, img, st) ==
    LET s1 == InterpolateList(rp, img, st.mismatches_, 0,
                              [disp_left_ |-> st.disp_left_, ub |-> st.ub])
        s2 == InterpolateList(rp, img, st.occlusions_, 1, s1)
    IN [st EXCEPT !.disp_left_ = s2.disp_left_, !.ub = s2.ub]

\* The Sobel gradients of EdgeDetect at interior pixel (x, y), and the mask bit.
EdgeAt(disp_ptr, width, x, y, threshold) ==
    LET P(r, c) == disp_ptr[(y + r) * width + x + c]
        grad_x == FAdd(FAdd(FAdd(FNeg(P(-1, -1)), P(-1, 1)),
                            FAdd(FMulInt(P(0, -1), -2), FMulInt(P(0, 1), 2))),
                       FAdd(FNeg(P(1, -1)), P(1, 1)))
        grad_y == FAdd(FSub(FSub(FNeg(P(-1, -1)), FMulInt(P(-1, 0), 2)), P(-1, 1)),
                       FAdd(FAdd(P(1, -1), FMulInt(P(1, 0), 2)), P(1, 1)))
        grad == FAdd(FAbs(grad_x), FAbs(grad_y))
    IN IF FGt(grad, threshold) THEN 1 ELSE 0

\* edge_mask after EdgeDetect: zero everywhere but at interior pixels whose
\* gradient magnitude exceeds threshold.
EdgeDetect(disp_ptr, width, height, threshold) ==
    Stored([k \in 0 .. (width * height - 1) |->
        LET x == k % width
            y == k \div width
        IN IF y >= 1 /\ y < height - 1 /\ x >= 1 /\ x < width - 1
           THEN EdgeAt(disp_ptr, width, x, y, threshold) ELSE 0])

\* The loop over k (0: left neighbour, 1: right neighbour) at pixel (x, y): st
\* holds disp_left_, c0 and ub.  cost_ptr is the offset of the pixel's costs.
RECURSIVE NeighbourLoop(_, _, _, _, _, _, _, _)
NeighbourLoop(rp, cost, cost_ptr, x, y, k, junk, st) ==
    IF ~(k < 2) THEN st
    ELSE LET disp_range == rp.max_disparity_ - rp.min_disparity_
             x2 == IF k = 0 THEN x - 1 ELSE x + 1
             d2 == st.disp_left_[y * rp.width_ + x2]
             idx == IF k = 0 THEN cost_ptr - disp_range + lround(d2)
                    ELSE cost_ptr + disp_range + lround(d2)
             c == Rd(cost, idx, junk)
             ub == st.ub \/ idx \notin DOMAIN cost
         IN IF FNe(d2, Invalid_Float)
            THEN NeighbourLoop(rp, cost, cost_ptr, x, y, k + 1, junk,
                     IF FLt(c, st.c0)
                     THEN [disp_left_ |-> [st.disp_left_ EXCEPT ![y * rp.width_ + x] = d2],
                           c0 |-> c, ub |-> ub]
                     ELSE [st EXCEPT !.ub = ub])
            ELSE NeighbourLoop(rp, cost, cost_ptr, x, y, k + 1, junk, st)

\* The loops over y and x of DepthDiscontinuityAdjustment, entered at pixel p
\* (row-major); st holds disp_left_ and ub.
RECURSIVE AdjustLoop(_, _, _, _, _, _)
AdjustLoop(rp, cost, vec_edge_left, p, junk, st) ==
    IF ~(p < rp.width_ * rp.height_) THEN st
    ELSE LET x == p % rp.width_
             y == p \div rp.width_
             disp_range == rp.max_disparity_ - rp.min_disparity_
             d == st.disp_left_[p]
             cost_ptr == y * rp.width_ * disp_range + x * disp_range
             di == lround(d)
             r == NeighbourLoop(rp, cost, cost_ptr, x, y, 0, junk,
                      [disp_left_ |-> st.disp_left_,
                       c0 |-> Rd(cost, cost_ptr + di, junk),
                       ub |-> st.ub \/ (cost_ptr + di) \notin DOMAIN cost])
         IN IF x >= 1 /\ x < rp.width_ - 1 /\ vec_edge_left[p] = 1
               /\ FNe(d, Invalid_Float)
            THEN AdjustLoop(rp, cost, vec_edge_left, p + 1, junk,
                            [disp_left_ |-> r.disp_left_, ub |-> r.ub])
            ELSE AdjustLoop(rp, cost, vec_edge_left, p + 1, junk, st)

\* [disp_left_, ub] after DepthDiscontinuityAdjustment.
DepthDiscontinuityAdjustment(rp, cost, junk, st) ==
    IF rp.max_disparity_ - rp.min_disparity_ <= 0 THEN st
    ELSE AdjustLoop(rp, cost,
                    EdgeDetect(st.disp_left_, rp.width_, rp.height_, Flt(5)),
                    0, junk, st)

\* seq with v inserted before the first element greater than v.
RECURSIVE InsertSorted(_, _)
InsertSorted(seq, v) ==
    IF seq = << >> THEN <<v>>
    ELSE IF v < Head(seq) THEN <<v>> \o seq
    ELSE <<Head(seq)>> \o InsertSorted(Tail(seq), v)

\* The values in[k] for k in the sequence ks, in increasing order.
RECURSIVE SortedValues(_, _)
SortedValues(in, ks) ==
    IF ks = << >> THEN << >>
    ELSE InsertSorted(SortedValues(in, Tail(ks)), in[Head(ks)])

\* adcensus_util::MedianFilter (not among the sources): each pixel becomes the
\* median of the raw values of its wnd_size x wnd_size window in the input, the
\* window being cut at the image border.
MedianFilter(in, width, height, wnd_size) ==
    LET radius == wnd_size \div 2
        Wnd(x, y) == SelectSeq([k \in 1 .. wnd_size * wnd_size |->
                                   <<x + ((k - 1) % wnd_size) - radius,
                                     y + ((k - 1) \div wnd_size) - radius>>],
                               LAMBDA q : q[1] >= 0 /\ q[1] < width
                                          /\ q[2] >= 0 /\ q[2] < height)
        Med(x, y) == LET w == Wnd(x, y)
                         sorted == SortedValues(in, [k \in 1 .. Len(w) |->
                                                        w[k][2] * width + w[k][1]])
                     IN sorted[(Len(sorted) \div 2) + 1]
    IN Stored([k \in 0 .. (width * height - 1) |-> Med(k % width, k \div width)])

\* SetParam with the LR check always on.
SetParamLRCheck(rf, min_disparity, max_disparity, irv_ts, irv_th, lrcheck_thres, do_lr_check, do_region_voting, do_interpolating, do_discontinuity_adjustment) ==
    [rf EXCEPT !.min_disparity_ = min_disparity,
               !.max_disparity_ = max_disparity,
               !.irv_ts_ = irv_ts,
               !.irv_th_ = irv_th,
               !.lrcheck_thres_ = lrcheck_thres,
               !.do_lr_check_ = TRUE,
               !.do_region_voting_ = do_region_voting,
               !.do_interpolating_ = do_interpolating,
               !.do_discontinuity_adjustment_ = do_discontinuity_adjustment]

\* The refiner rf after SetParam.
SetParam(rf, min_disparity, max_disparity, irv_ts, irv_th, lrcheck_thres, do_lr_check, do_region_voting, do_interpolating, do_discontinuity_adjustment) ==
    [rf EXCEPT !.min_disparity_ = min_disparity,
               !.max_disparity_ = max_disparity,
               !.irv_ts_ = irv_ts,
               !.irv_th_ = irv_th,
               !.lrcheck_thres_ = lrcheck_thres,
               !.do_lr_check_ = do_lr_check,
               !.do_region_voting_ = do_region_voting,
               !.do_interpolating_ = do_interpolating,
               !.do_discontinuity_adjustment_ = do_discontinuity_adjustment]

\* What Refine returns: s3 is the state after the first three steps, s4 the
\* state after step 4; the median filter runs last, the edges are those of the
\* map step 4 received.
RefineMedianFilter(rf, s3, s4) ==
    [refiner_ |-> [rf EXCEPT !.mismatches_ = s3.mismatches_,
                             !.occlusions_ = s3.occlusions_,
                             !.vec_edge_left_ =
                                 IF rf.do_discontinuity_adjustment_
                                    /\ rf.max_disparity_ - rf.min_disparity_ > 0
                                 THEN EdgeDetect(s3.disp_left_, rf.width_, rf.height_, Flt(5))
                                 ELSE rf.vec_edge_left_],
     disp_left_ |-> MedianFilter(s4.disp_left_, rf.width_, rf.height_, 3),
     ub |-> (IF s3.ub THEN {"list"} ELSE {}) \cup (IF s4.ub THEN {"dda"} ELSE {}),
     steps |-> (IF rf.do_lr_check_ THEN <<"OutlierDetection">> ELSE << >>)
            \o (IF rf.do_region_voting_ THEN <<"IterativeRegionVoting">> ELSE << >>)
            \o (IF rf.do_interpolating_ THEN <<"ProperInterpolation">> ELSE << >>)
            \o (IF rf.do_discontinuity_adjustment_
                THEN <<"DepthDiscontinuityAdjustment">> ELSE << >>)
            \o <<"MedianFilter">>,
     median_in |-> s4.disp_left_]

\* Refine from step 4 on: s3 is the state the first three steps left.
RefineDiscontinuityAdjustment(rf, cost, junk, s3) ==
    RefineMedianFilter(rf, s3,
        IF rf.do_discontinuity_adjustment_
        THEN DepthDiscontinuityAdjustment(rf, cost, junk,
                 [disp_left_ |-> s3.disp_left_, ub |-> FALSE])
        ELSE [disp_left_ |-> s3.disp_left_, ub |-> FALSE])

\* Refine from step 2 on: s1 is the state step 1 left.
RefineRegionVoting(rf, img, cost, arms, junk, s1) ==
    RefineDiscontinuityAdjustment(rf, cost, junk,
        IF rf.do_interpolating_
        THEN ProperInterpolation(rf, img,
                 IF rf.do_region_voting_ THEN IterativeRegionVoting(rf, arms, s1) ELSE s1)
        ELSE IF rf.do_region_voting_ THEN IterativeRegionVoting(rf, arms, s1) ELSE s1)

\* The state after step 1 when it runs: od is what OutlierDetection returns.
RefineOutliers(od) ==
    [disp_left_ |-> od.disp_left_, mismatches_ |-> od.mismatches_,
     occlusions_ |-> od.occlusions_, ub |-> FALSE]

\* The refiner after Refine() on the left image img, the cost volume cost, the
\* arms, and the two disparity maps: r.refiner_ and r.disp_left_ are what it
\* leaves, r.ub the accesses outside a buffer it made, r.steps the steps it ran
\* in order, and r.median_in the left map as the median filter received it.
Refine(rf, img, cost, arms, disp_left, disp_right, junk) ==
    IF rf.width_ <= 0 \/ rf.height_ <= 0 \/ disp_left = Null \/ disp_right = Null
       \/ cost = Null \/ arms = Null
    THEN [refiner_ |-> rf, disp_left_ |-> disp_left, ub |-> {}, steps |-> << >>,
          median_in |-> Null]
    ELSE RefineRegionVoting(rf, img, cost, arms, junk,
             IF rf.do_lr_check_
             THEN RefineOutliers(OutlierDetection(disp_left, disp_right, rf.width_,
                                                  rf.height_, rf.lrcheck_thres_))
             ELSE [disp_left_ |-> disp_left, mismatches_ |-> rf.mismatches_,
                   occlusions_ |-> rf.occlusions_, ub |-> FALSE])

-----------------------------------------------------------------------------
(* CostComputer (not among the sources; after the description of the AD +
   Census cost) *)

\* 1024 * exp(-k / 8) for k = 0 .. 64 (index k + 1), to the nearest integer.
ExpTab == <<1024, 904, 797, 704, 621, 548, 484, 427, 377, 332, 293,
           259, 228, 202, 178, 157, 139, 122, 108, 95, 84, 74,
           65, 58, 51, 45, 40, 35, 31, 27, 24, 21, 19,
           17, 15, 13, 11, 10, 9, 8, 7, 6, 5, 5,
           4, 4, 3, 3, 3, 2, 2, 2, 2, 1, 1,
           1, 1, 1, 1, 1, 1, 0, 0, 0, 0>>

\* rho(c, lambda) = 1 - exp(-c / lambda) for c = num / den, with c / lambda
\* taken to the nearest eighth.
Rho(num, den, lambda) ==
    LET k == RoundDiv(8 * num * Scale, den * lambda)
    IN IF k > 64 THEN Flt(1) ELSE Flt(1) - ExpTab[k + 1]

\* The colour of pixel (x, y) with the coordinates clamped to the image.
ClampedPixel(img, width, height, x, y) ==
    img[Max(0, Min(height - 1, y)) * width + Max(0, Min(width - 1, x))]

\* The Hamming distance of the census codes of left pixel (x, y) and right pixel
\* (xr, y): one bit per pixel of the 9 x 3 window other than the centre, set iff
\* the green value there is less than the centre's.
CensusDist(imgL, imgR, width, height, x, xr, y) ==
    LET Bit(img, cx, dx, dy) ==
            ClampedPixel(img, width, height, cx + dx, y + dy)[2] < img[y * width + cx][2]
    IN Cardinality({w \in ((-4) .. 4) \X ((-1) .. 1) :
                       /\ w # <<0, 0>>
                       /\ Bit(imgL, x, w[1], w[2]) # Bit(imgR, xr, w[1], w[2])})

\* cost_init_ after Compute(): rho(AD) + rho(Census) where the right pixel
\* x - d is inside the image, 2 elsewhere.
Compute(cc, imgL, imgR) ==
    IF ~cc.is_initialized_ \/ imgL = Null \/ imgR = Null THEN cc.cost_init_
    ELSE LET disp_range == cc.max_disparity_ - cc.min_disparity_
         IN Stored([k \in 0 .. (cc.width_ * cc.height_ * disp_range - 1) |->
                LET y  == k \div (cc.width_ * disp_range)
                    x  == (k \div disp_range) % cc.width_
                    d  == (k % disp_range) + cc.min_disparity_
                    xr == x - d
                IN IF xr < 0 \/ xr >= cc.width_ THEN Flt(2)
                   ELSE Rho(ColorL1(imgL[y * cc.width_ + x], imgR[y * cc.width_ + xr]),
                            3, cc.lambda_ad_)
                        + Rho(CensusDist(imgL, imgR, cc.width_, cc.height_, x, xr, y),
                              1, cc.lambda_census_)])

-----------------------------------------------------------------------------
(* ADCensusStereo *)

\* The shipped option values, with the arm lengths, the disparity range and the
\* voting floor brought down to the size of the images below.
DefaultOption ==
    [min_disparity |-> 0, max_disparity |-> 3,
     lambda_ad |-> Flt(10), lambda_census |-> Flt(30),
     cross_L1 |-> 2, cross_L2 |-> 1, cross_t1 |-> 20, cross_t2 |-> 6,
     so_p1 |-> Flt(1), so_p2 |-> Flt(3), so_tso |-> 15,
     irv_ts |-> 1, irv_th |-> FRat(4, 10), lrcheck_thres |-> Flt(1),
     do_lr_check |-> TRUE, do_filling |-> TRUE, do_discontinuity_adjustment |-> FALSE]

\* DefaultOption with another disparity range and other toggles.
OptionWith(min_disparity, max_disparity, lr, filling, dda) ==
    [DefaultOption EXCEPT !.min_disparity = min_disparity,
                          !.max_disparity = max_disparity,
                          !.do_lr_check = lr, !.do_filling = filling,
                          !.do_discontinuity_adjustment = dda]

\* A CrossArm with all four lengths zero.
ZeroArm == [left |-> 0, right |-> 0, top |-> 0, bottom |-> 0]

\* The members of the instance as one record.
Self ==
    [width_ |-> width_, height_ |-> height_, option_ |-> option_,
     is_initialized_ |-> is_initialized_, disp_left_ |-> disp_left_,
     disp_right_ |-> disp_right_, cost_computer_ |-> cost_computer_,
     aggregator_ |-> aggregator_, refiner_ |-> refiner_]

\* The instance as its constructor leaves it.
Constructed ==
    [width_ |-> 0, height_ |-> 0, option_ |-> DefaultOption,
     is_initialized_ |-> FALSE, disp_left_ |-> Null, disp_right_ |-> Null,
     cost_computer_ |-> [width_ |-> 0, height_ |-> 0, min_disparity_ |-> 0,
                         max_disparity_ |-> 0, lambda_ad_ |-> Flt(0),
                         lambda_census_ |-> Flt(0), is_initialized_ |-> FALSE,
                         cost_init_ |-> Null],
     aggregator_ |-> [width_ |-> 0, height_ |-> 0, min_disparity_ |-> 0,
                      max_disparity_ |-> 0, is_initialized_ |-> FALSE,
                      cross_L1_ |-> 0, cross_L2_ |-> 0, cross_t1_ |-> 0, cross_t2_ |-> 0,
                      vec_cross_arms_ |-> Null, vec_sup_count_ |-> <<Null, Null>>,
                      cost_aggr_ |-> Null],
     refiner_ |-> [width_ |-> 0, height_ |-> 0, min_disparity_ |-> 0,
                   max_disparity_ |-> 0, irv_ts_ |-> 0, irv_th_ |-> Flt(0),
                   lrcheck_thres_ |-> Flt(0), do_lr_check_ |-> FALSE,
                   do_region_voting_ |-> FALSE, do_interpolating_ |-> FALSE,
                   do_discontinuity_adjustment_ |-> FALSE,
                   mismatches_ |-> << >>, occlusions_ |-> << >>,
                   vec_edge_left_ |-> Null]]

\* Whether the instance self has the width, height and disparity range its
\* buffers were allocated for (it has not after an Initialize that failed on an
\* initialised instance).
Coherent(self) ==
    /\ self.width_ > 0 /\ self.height_ > 0
    /\ self.option_.max_disparity - self.option_.min_disparity > 0
    /\ self.aggregator_.width_ = self.width_
    /\ self.aggregator_.height_ = self.height_
    /\ self.aggregator_.min_disparity_ = self.option_.min_disparity
    /\ self.aggregator_.max_disparity_ = self.option_.max_disparity

\* CrossAggregator::Initialize's return value.
AggregatorInitialize(width, height, min_disparity, max_disparity) ==
    ~(width * height <= 0 \/ max_disparity - min_disparity <= 0)

\* MultiStepRefiner::Initialize's return value.
RefinerInitialize(width, height) == ~(width <= 0 \/ height <= 0)

\* CostComputer::Initialize's return value (allocation failure aside).
CostComputerInitialize(width, height, min_disparity, max_disparity) ==
    width > 0 /\ height > 0 /\ max_disparity - min_disparity > 0

\* Initialize's return value without the check of the disparity range.
InitializeOkNoRange(width, height, option) == ~(width <= 0 \/ height <= 0)

\* Whether Initialize(width, height, option) returns true.
InitializeOk(width, height, option) ==
    /\ ~(width <= 0 \/ height <= 0)
    /\ ~(option.max_disparity - option.min_disparity <= 0)
    /\ CostComputerInitialize(width, height, option.min_disparity, option.max_disparity)
    /\ AggregatorInitialize(width, height, option.min_disparity, option.max_disparity)
    /\ RefinerInitialize(width, height)

\* The instance self after Initialize(width, height, option); junk is what the
\* newly allocated disparity buffers hold.
InitializeOn(self, width, height, option, junk) ==
    LET img_size   == width * height
        disp_range == option.max_disparity - option.min_disparity
        s1 == [self EXCEPT !.width_ = width, !.height_ = height, !.option_ = option]
    IN IF ~InitializeOk(width, height, option) THEN s1
       ELSE [s1 EXCEPT
               !.disp_left_ = Fill(img_size, junk),
               !.disp_right_ = Fill(img_size, junk),
               !.cost_computer_ =
                   [@ EXCEPT !.width_ = width, !.height_ = height,
                             !.min_disparity_ = option.min_disparity,
                             !.max_disparity_ = option.max_disparity,
                             !.cost_init_ = Fill(img_size * disp_range, Flt(0)),
                             !.is_initialized_ = TRUE],
               !.aggregator_ =
                   [@ EXCEPT !.width_ = width, !.height_ = height,
                             !.min_disparity_ = option.min_disparity,
                             !.max_disparity_ = option.max_disparity,
                             !.vec_cross_arms_ = Fill(img_size, ZeroArm),
                             !.vec_sup_count_ = <<Fill(img_size, 0), Fill(img_size, 0)>>,
                             !.cost_aggr_ =
                                 Stored([k \in 0 .. (img_size * disp_range - 1) |->
                                            Rd(self.aggregator_.cost_aggr_, k, Flt(0))]),
                             !.is_initialized_ = TRUE],
               !.refiner_ = [@ EXCEPT !.width_ = width, !.height_ = height,
                                      !.vec_edge_left_ = Fill(img_size, 0)],
               !.is_initialized_ = TRUE]

\* Release without the clearing of is_initialized_.
ReleaseBuffersOnly(self) == [self EXCEPT !.disp_left_ = Null, !.disp_right_ = Null]

\* The instance self after Release() and is_initialized_ = false.
Release(self) ==
    [self EXCEPT !.disp_left_ = Null, !.disp_right_ = Null, !.is_initialized_ = FALSE]

\* What Match leaves once every stage has run; wta_outside tells whether the
\* right picker read outside the cost volume.
StagesResult(cc, ag, so, dl, dr, rf, wta_outside) ==
    [cost_computer_ |-> [cc EXCEPT !.cost_init_ = so[1]],
     aggregator_    |-> [ag EXCEPT !.cost_aggr_ = so[2]],
     refiner_       |-> rf.refiner_,
     disp_left_     |-> rf.disp_left_,
     disp_right_    |-> dr,
     wta            |-> dl,
     median_in      |-> rf.median_in,
     steps          |-> rf.steps,
     ub             |-> rf.ub \cup (IF wta_outside THEN {"wta"} ELSE {})]

\* MultiStepRefine() and what Match leaves, given the two maps the pickers wrote.
MultiStepRefine(self, imgL, junk, cc, ag, so, dl, dr) ==
    StagesResult(cc, ag, so, dl, dr,
        Refine(SetParam(self.refiner_, self.option_.min_disparity,
                        self.option_.max_disparity, self.option_.irv_ts,
                        self.option_.irv_th, self.option_.lrcheck_thres,
                        self.option_.do_lr_check, self.option_.do_filling,
                        self.option_.do_filling,
                        self.option_.do_discontinuity_adjustment),
               imgL, so[2], ag.vec_cross_arms_, dl, dr, junk[1]),
        RightIndexOutside(so[2], self.width_, self.height_,
                          self.option_.min_disparity, self.option_.max_disparity))

\* ComputeDisparity(), ComputeDisparityRight() and the stage after them, given
\* the buffers so that ScanlineOptimize() left.
ComputeDisparities(self, imgL, junk, cc, ag, so) ==
    MultiStepRefine(self, imgL, junk, cc, ag, so,
        ComputeDisparity(self.disp_left_, so[2], self.width_, self.height_,
                         self.option_.min_disparity, self.option_.max_disparity, junk),
        ComputeDisparityRight(self.disp_right_, so[2], self.width_, self.height_,
                              self.option_.min_disparity, self.option_.max_disparity,
                              junk))

\* ScanlineOptimize() and the stages after it, given the initial costs c0 and the
\* aggregator ag that CostAggregation() left.
ScanlineOptimize(self, imgL, imgR, junk, cc, c0, ag) ==
    ComputeDisparities(self, imgL, junk, cc, ag,
        Optimize([width_ |-> self.width_, height_ |-> self.height_,
                  min_disparity_ |-> self.option_.min_disparity,
                  max_disparity_ |-> self.option_.max_disparity,
                  so_p1_ |-> self.option_.so_p1, so_p2_ |-> self.option_.so_p2,
                  so_tso_ |-> self.option_.so_tso],
                 imgL, imgR, c0, ag.cost_aggr_))

\* CostAggregation() and the stages after it, given the cost computer cc with
\* its parameters set and the initial costs c0 it computed.
CostAggregation(self, imgL, imgR, junk, cc, c0) ==
    ScanlineOptimize(self, imgL, imgR, junk, cc, c0,
        Aggregate([self.aggregator_ EXCEPT !.cross_L1_ = self.option_.cross_L1,
                                           !.cross_L2_ = self.option_.cross_L2,
                                           !.cross_t1_ = self.option_.cross_t1,
                                           !.cross_t2_ = self.option_.cross_t2],
                  imgL, c0, 4))

\* ComputeCost() and the stages after it, given the cost computer cc with its
\* parameters set.
ComputeCost(self, imgL, imgR, junk, cc) ==
    CostAggregation(self, imgL, imgR, junk, cc, Compute(cc, imgL, imgR))

\* What the stages of Match leave behind on the images imgL and imgR, with the
\* disparity maps of the pickers and of the refiner's steps.
Stages(self, imgL, imgR, junk) ==
    ComputeCost(self, imgL, imgR, junk,
        [self.cost_computer_ EXCEPT !.lambda_ad_ = self.option_.lambda_ad,
                                    !.lambda_census_ = self.option_.lambda_census])

\* Whether an Initialize or Reset call with these arguments repeats the
\* arguments of every such call made before.
SameAsBefore(width, height, option) ==
    \/ call.inits = 0
    \/ call.fixed /\ width = width_ /\ height = height_ /\ option = option_

\* The record of a call that ran no stage; nonnull tells whether all the pointers
\* handed to the call were non-null, fixed whether all Initialize and Reset calls
\* so far had the same arguments, init_ret what the most recent Initialize or
\* Reset call returned.
NoStage(op, nonnull, ret, fixed) ==
    [op |-> op, nonnull |-> nonnull, ret |-> ret, fixed |-> fixed,
     inits |-> IF op = "Match" THEN call.inits ELSE call.inits + 1,
     matches |-> call.matches,
     reset_failed |-> IF op = "Match" THEN call.reset_failed
                      ELSE IF ret THEN FALSE
                      ELSE op = "Reset" \/ call.reset_failed,
     init_ret |-> IF op = "Match" THEN call.init_ret ELSE ret,
     stages |-> << >>, steps |-> << >>, wta |-> Null, median_in |-> Null, ub |-> {}]

\* The record of a Match call that ran the stages.
Ran(nonnull, steps, wta, median_in, ub) ==
    [op |-> "Match", nonnull |-> nonnull, ret |-> TRUE, fixed |-> call.fixed, inits |-> call.inits,
     matches |-> call.matches + 1, reset_failed |-> call.reset_failed,
     init_ret |-> call.init_ret,
     stages |-> <<"ComputeCost", "CostAggregation", "ScanlineOptimize",
                  "ComputeDisparity", "ComputeDisparityRight", "MultiStepRefine">>,
     steps |-> steps, wta |-> wta, median_in |-> median_in, ub |-> ub]

\* The members of the instance become those of the record r.
Becomes(r) ==
    /\ width_' = r.width_
    /\ height_' = r.height_
    /\ option_' = r.option_
    /\ is_initialized_' = r.is_initialized_
    /\ disp_left_' = r.disp_left_
    /\ disp_right_' = r.disp_right_
    /\ cost_computer_' = r.cost_computer_
    /\ aggregator_' = r.aggregator_
    /\ refiner_' = r.refiner_

\* bool Initialize(width, height, option).
Initialize(width, height, option, junk) ==
    /\ \E r \in {InitializeOn(Self, width, height, option, junk)} : Becomes(r)
    /\ UNCHANGED <<img_left_, img_right_, out_disp>>
    /\ call' = NoStage("Initialize", TRUE, InitializeOk(width, height, option),
                       SameAsBefore(width, height, option))

\* bool Reset(width, height, option): Release(), is_initialized_ = false, then
\* Initialize.  width and height are unsigned.
Reset(width, height, option, junk) ==
    /\ \E r \in {InitializeOn(Release(Self), width, height, option, junk)} : Becomes(r)
    /\ UNCHANGED <<img_left_, img_right_, out_disp>>
    /\ call' = NoStage("Reset", TRUE, InitializeOk(width, height, option),
                       SameAsBefore(width, height, option))

\* Match's guard without the check of the output pointer.
MatchRefusesNoOut(img_left, img_right, disp_left) ==
    ~is_initialized_ \/ img_left = Null \/ img_right = Null

\* Whether Match returns false before any stage: disp_left tells whether the
\* output pointer is non-null, an absent image is Null.
MatchRefuses(img_left, img_right, disp_left) ==
    ~is_initialized_ \/ img_left = Null \/ img_right = Null \/ ~disp_left

\* bool Match(img_left, img_right, disp_left).  junk is what reads outside a
\* buffer yield.
Match(img_left, img_right, disp_left, junk) ==
    IF MatchRefuses(img_left, img_right, disp_left)
    THEN /\ call' = NoStage("Match", img_left # Null /\ img_right # Null /\ disp_left,
                         FALSE, call.fixed)
         /\ UNCHANGED <<width_, height_, option_, is_initialized_, disp_left_, disp_right_,
                        img_left_, img_right_, cost_computer_, aggregator_, refiner_,
                        out_disp>>
    ELSE /\ img_left_' = img_left
         /\ img_right_' = img_right
         /\ UNCHANGED <<width_, height_, option_, is_initialized_>>
         /\ IF Coherent(Self)
            THEN \E st \in {Stages(Self, img_left, img_right, junk)} :
                    /\ cost_computer_' = st.cost_computer_
                    /\ aggregator_' = st.aggregator_
                    /\ refiner_' = st.refiner_
                    /\ disp_left_' = st.disp_left_
                    /\ disp_right_' = st.disp_right_
                    /\ out_disp' = Stored([k \in 0 .. (height_ * width_ - 1) |->
                                              st.disp_left_[k]])
                    /\ call' = Ran(img_left # Null /\ img_right # Null /\ disp_left,
                                   st.steps, st.wta, st.median_in, st.ub)
            ELSE \* the stages run on buffers allocated for other dimensions
                 \* or another disparity range
                 /\ UNCHANGED <<cost_computer_, aggregator_, refiner_, disp_left_,
                                disp_right_>>
                 /\ out_disp' \in {out_disp, Fill(1, junk[1])}
                 /\ call' = Ran(img_left # Null /\ img_right # Null /\ disp_left,
                                << >>, Null, Null, {"stale"})

-----------------------------------------------------------------------------
(* The calls the model makes *)

Options ==
    { DefaultOption,
      OptionWith(0, 3, FALSE, FALSE, FALSE),
      OptionWith(0, 3, FALSE, TRUE, TRUE),
      OptionWith(0, 1, TRUE, TRUE, FALSE),
      OptionWith(1, 2, TRUE, TRUE, FALSE),
      OptionWith(-1, 2, TRUE, FALSE, TRUE),
      OptionWith(2, 2, TRUE, TRUE, FALSE) }

\* The image sizes offered to Initialize, and those (unsigned) offered to Reset.
Sizes == {<<3, 2>>, <<2, 2>>, <<0, 2>>, <<3, -1>>}
ResetSizes == {<<3, 2>>, <<2, 2>>, <<0, 2>>}

\* Colours.
ColA == <<0, 0, 0>>
ColB == <<12, 0, 0>>
ColC == <<21, 5, 0>>
ColD == <<14, 40, 0>>
ColE == <<200, 100, 50>>

\* An image of the given colours, row by row.
Image(colours) == Stored([k \in 0 .. (Len(colours) - 1) |-> colours[k + 1]])

\* The pairs <<left, right>> of images of width * height pixels.
ImagePairs(width, height) ==
    IF width * height = 6
    THEN { <<Image(<<ColA, ColB, ColC, ColD, ColA, ColB>>),
             Image(<<ColB, ColC, ColC, ColA, ColB, ColB>>)>>,
           <<Image(<<ColA, ColA, ColE, ColB, ColD, ColE>>),
             Image(<<ColA, ColE, ColE, ColD, ColE, ColA>>)>> }
    ELSE IF width * height = 4
    THEN { <<Image(<<ColA, ColB, ColD, ColA>>), Image(<<ColB, ColA, ColA, ColE>>)>> }
    ELSE { }

\* What a read outside a buffer, or of a buffer never written, may yield.
Junks == { <<Flt(0), Flt(0)>>, <<Large_Float, Flt(1)>> }

\* The numbers of Initialize or Reset calls and of Match calls that ran the
\* stages after which the model makes no more of them.
MaxInits == 2
MaxMatches == 2

Init ==
    /\ width_ = Constructed.width_
    /\ height_ = Constructed.height_
    /\ option_ = Constructed.option_
    /\ is_initialized_ = Constructed.is_initialized_
    /\ disp_left_ = Constructed.disp_left_
    /\ disp_right_ = Constructed.disp_right_
    /\ img_left_ = Null
    /\ img_right_ = Null
    /\ cost_computer_ = Constructed.cost_computer_
    /\ aggregator_ = Constructed.aggregator_
    /\ refiner_ = Constructed.refiner_
    /\ out_disp = Null
    /\ call = [op |-> "none", nonnull |-> TRUE, ret |-> FALSE, fixed |-> TRUE, inits |-> 0, matches |-> 0,
               reset_failed |-> FALSE, init_ret |-> FALSE, stages |-> << >>,
               steps |-> << >>, wta |-> Null, median_in |-> Null, ub |-> {}]

\* The image pairs a caller may hand to Match: of the initialised size, or any
\* when the instance has no valid size.
Offered ==
    IF width_ > 0 /\ height_ > 0 THEN ImagePairs(width_, height_)
    ELSE ImagePairs(3, 2)

DoInitialize ==
    /\ call.inits < MaxInits
    /\ \E size \in Sizes, option \in Options, junk \in Junks :
          Initialize(size[1], size[2], option, junk[1])

DoReset ==
    /\ call.inits < MaxInits
    /\ \E size \in ResetSizes, option \in Options, junk \in Junks :
          Reset(size[1], size[2], option, junk[1])

DoMatch ==
    /\ call.matches < MaxMatches
    /\ \E pair \in Offered, junk \in Junks :
          \E img_left \in {pair[1], Null}, img_right \in {pair[2], Null},
             disp_left \in BOOLEAN :
                Match(img_left, img_right, disp_left, junk)

Next == DoInitialize \/ DoReset \/ DoMatch

Spec == Init /\ [][Next]_vars

-----------------------------------------------------------------------------
(* The claims about the calls *)

\* The disparity range of the options the instance holds.
DispRange == option_.max_disparity - option_.min_disparity

\* C1: Initialize returns false whenever width <= 0, or height <= 0, or
\* max_disparity - min_disparity <= 0, and true for every other input (the
\* arguments are what the call leaves in width_, height_ and option_).
C1_InitializeReturn ==
    call.op = "Initialize" =>
        (call.ret = FALSE <=> (width_ <= 0 \/ height_ <= 0 \/ DispRange <= 0))

\* An Initialize on positive dimensions that failed on an empty disparity range.
C1_Witness ==
    call.op = "Initialize" /\ ~call.ret /\ width_ > 0 /\ height_ > 0 /\ DispRange <= 0

\* C2: Match returns false if the instance is not initialised or one of the three
\* pointers is null, and then runs no stage and leaves out_disp, the disparity
\* maps, the cost volumes and the outlier lists as they were; in every other
\* case it runs all the stages and returns true.
C2_MatchGuard ==
    [][call'.op = "Match" =>
          IF ~is_initialized_ \/ ~call'.nonnull
          THEN /\ call'.ret = FALSE
               /\ call'.stages = << >>
               /\ UNCHANGED <<out_disp, disp_left_, disp_right_, cost_computer_,
                              aggregator_, refiner_>>
          ELSE /\ call'.ret = TRUE
               /\ call'.stages = <<"ComputeCost", "CostAggregation", "ScanlineOptimize",
                                   "ComputeDisparity", "ComputeDisparityRight",
                                   "MultiStepRefine">>]_vars

\* A Match with a null pointer refused by an instance that has matched before.
C2_Witness ==
    /\ call.op = "Match" /\ ~call.ret /\ ~call.nonnull
    /\ is_initialized_ /\ out_disp # Null /\ refiner_.mismatches_ # << >>

\* C3: Reset is Release followed by Initialize: it returns false exactly for the
\* arguments for which Initialize does (and then leaves the instance released and
\* not initialised), and after a Reset that returned false every Match returns
\* false until a later Initialize or Reset succeeds.
C3_Reset ==
    /\ call.op = "Reset" =>
          /\ call.ret = FALSE <=> (width_ <= 0 \/ height_ <= 0 \/ DispRange <= 0)
          /\ call.ret = is_initialized_
          /\ ~call.ret => disp_left_ = Null /\ disp_right_ = Null
    /\ call.op = "Match" /\ call.reset_failed => ~call.ret /\ call.stages = << >>

\* A Match refused after a failed Reset of an instance that had matched before.
C3_Witness ==
    /\ call.op = "Match" /\ call.reset_failed /\ call.nonnull /\ ~call.ret
    /\ out_disp # Null

\* The lower and upper ends of the interval (min_disparity - 0.5, max_disparity - 0.5).
RangeLow == Flt(option_.min_disparity) - FRat(1, 2)
RangeHigh == Flt(option_.max_disparity) - FRat(1, 2)

\* The last call was a Match that ran the stages on an instance whose buffers
\* fit its dimensions and options.
Matched == call.op = "Match" /\ call.ret /\ Coherent(Self)

\* C4: with fixed options and fixed images the output of Match is the one a
\* newly constructed and initialised instance gives on the same images, whether
\* it is the first Match after Initialize, a repeated one, or one after a Reset
\* with identical arguments: nothing left over from earlier calls influences it
\* (nor does any value read from memory the calls never wrote).
C4_Repeatable ==
    Matched /\ call.fixed =>
        \A junk \in Junks :
            out_disp = Stages(InitializeOn(Constructed, width_, height_, option_, junk[1]),
                              img_left_, img_right_, junk).disp_left_

\* A second Match, after a second Initialize or Reset with the same arguments,
\* whose LR check filled the outlier lists and whose output has a valid entry.
C4_Witness ==
    /\ Matched /\ call.fixed /\ call.inits = 2 /\ call.matches = 2
    /\ refiner_.mismatches_ # << >>
    /\ \E k \in DOMAIN out_disp : IsFinite(out_disp[k])

\* C5: after a successful Match every finite entry of out_disp lies strictly
\* between min_disparity - 0.5 and max_disparity - 0.5.
C5_OutDispInRange ==
    Matched =>
        \A k \in DOMAIN out_disp :
            IsFinite(out_disp[k]) => RangeLow < out_disp[k] /\ out_disp[k] < RangeHigh

\* C7: with do_lr_check, do_filling and do_discontinuity_adjustment all false the
\* left map enters the median filter as the picker wrote it and the outlier lists
\* stay as they were; each refinement step runs only if its toggle is set (region
\* voting and interpolation under do_filling), and the median filter always runs.
C7_Toggles ==
    [][call'.op = "Match" /\ call'.ret /\ Coherent(Self) =>
          /\ call'.steps =
                 (IF option_.do_lr_check THEN <<"OutlierDetection">> ELSE << >>)
                 \o (IF option_.do_filling
                     THEN <<"IterativeRegionVoting", "ProperInterpolation">> ELSE << >>)
                 \o (IF option_.do_discontinuity_adjustment
                     THEN <<"DepthDiscontinuityAdjustment">> ELSE << >>)
                 \o <<"MedianFilter">>
          /\ disp_left_' = MedianFilter(call'.median_in, width_, height_, 3)
          /\ (~option_.do_lr_check /\ ~option_.do_filling
                 /\ ~option_.do_discontinuity_adjustment) =>
                /\ call'.median_in = call'.wta
                /\ refiner_'.mismatches_ = refiner_.mismatches_
                /\ refiner_'.occlusions_ = refiner_.occlusions_]_vars

\* A Match with the three toggles false on an instance whose lists an earlier
\* Match filled, and whose picker found a valid disparity.
C7_Witness ==
    /\ Matched
    /\ ~option_.do_lr_check /\ ~option_.do_filling /\ ~option_.do_discontinuity_adjustment
    /\ refiner_.mismatches_ # << >>
    /\ \E k \in DOMAIN call.wta : IsFinite(call.wta[k])

\* C8: when max_disparity - min_disparity = 1 and Initialize succeeded, Match
\* with the shipped toggles (do_lr_check and do_filling set) yields an out_disp
\* whose every entry is Invalid_Float.
C8_RangeOneAllInvalid ==
    Matched /\ DispRange = 1 /\ option_.do_lr_check /\ option_.do_filling =>
        \A k \in DOMAIN out_disp : out_disp[k] = Invalid_Float

-----------------------------------------------------------------------------
(* Arm construction on its own *)

\* The colours of the images arms are built on: from ArmCol0, ArmCol1 is nearer
\* than cross_t2, ArmCol2 between cross_t2 and cross_t1, ArmCol3 beyond cross_t1
\* (but nearer than cross_t1 to ArmCol1 and ArmCol2).
ArmCol0 == <<0, 0, 0>>
ArmCol1 == <<3, 0, 0>>
ArmCol2 == <<12, 0, 0>>
ArmCol3 == <<21, 5, 0>>
ArmColours == {ArmCol0, ArmCol1, ArmCol2, ArmCol3}

\* The <<width, height>> of those images.
ArmShapes == {<<4, 1>>, <<1, 4>>, <<2, 2>>}

\* The values of cross_L1 (one of them above MAX_ARM_LENGTH) and cross_L2 tried
\* on them.
ArmL1 == {0, 1, 3, 300}
ArmL2 == {0, 1, 2}

\* An initialised aggregator for a width x height image, with its parameters set.
ArmAggregator(width, height, cross_L1, cross_L2) ==
    [Constructed.aggregator_ EXCEPT
        !.width_ = width, !.height_ = height, !.max_disparity_ = 1,
        !.is_initialized_ = TRUE,
        !.cross_L1_ = cross_L1, !.cross_L2_ = cross_L2,
        !.cross_t1_ = DefaultOption.cross_t1, !.cross_t2_ = DefaultOption.cross_t2,
        !.vec_cross_arms_ = Fill(width * height, ZeroArm)]

InitArms ==
    /\ \E shape \in ArmShapes, cross_L1 \in ArmL1, cross_L2 \in ArmL2 :
          /\ width_ = shape[1]
          /\ height_ = shape[2]
          /\ img_left_ \in [0 .. (shape[1] * shape[2] - 1) -> ArmColours]
          /\ aggregator_ = ArmAggregator(shape[1], shape[2], cross_L1, cross_L2)
    /\ option_ = Constructed.option_
    /\ is_initialized_ = TRUE
    /\ disp_left_ = Null
    /\ disp_right_ = Null
    /\ img_right_ = Null
    /\ cost_computer_ = Constructed.cost_computer_
    /\ refiner_ = Constructed.refiner_
    /\ out_disp = Null
    /\ call = [op |-> "none", nonnull |-> TRUE, ret |-> FALSE, fixed |-> TRUE,
               inits |-> 0, matches |-> 0, reset_failed |-> FALSE, stages |-> << >>,
               steps |-> << >>, wta |-> Null, median_in |-> Null, ub |-> {}]

\* BuildArms() on the left image.
DoBuildArms ==
    /\ call.op = "none"
    /\ aggregator_' = [aggregator_ EXCEPT
                          !.vec_cross_arms_ = BuildArms(aggregator_, img_left_)]
    /\ call' = [call EXCEPT !.op = "BuildArms"]
    /\ UNCHANGED <<width_, height_, option_, is_initialized_, disp_left_, disp_right_,
                   img_left_, img_right_, cost_computer_, refiner_, out_disp>>

NextArms == DoBuildArms

SpecArms == InitArms /\ [][NextArms]_vars

\* The arm of pixel (x, y).
ArmAt(x, y) == aggregator_.vec_cross_arms_[y * width_ + x]

\* The bound min(cross_L1, MAX_ARM_LENGTH) on an arm.
ArmBound == Min(aggregator_.cross_L1_, MAX_ARM_LENGTH)

\* C9: after arm construction, at every pixel (x, y), left <= x,
\* right <= width - 1 - x, top <= y, bottom <= height - 1 - y, each length is at
\* most min(cross_L1, MAX_ARM_LENGTH), and so every x + t with t in
\* [-left, right] and y + t with t in [-top, bottom] is inside the image.
C9_ArmsInsideImage ==
    call.op = "BuildArms" =>
        \A x \in 0 .. (width_ - 1), y \in 0 .. (height_ - 1) :
            LET arm == ArmAt(x, y)
            IN /\ arm.left >= 0 /\ arm.left <= x
               /\ arm.right >= 0 /\ arm.right <= width_ - 1 - x
               /\ arm.top >= 0 /\ arm.top <= y
               /\ arm.bottom >= 0 /\ arm.bottom <= height_ - 1 - y
               /\ arm.left <= ArmBound /\ arm.right <= ArmBound
               /\ arm.top <= ArmBound /\ arm.bottom <= ArmBound
               /\ \A t \in (-arm.left) .. arm.right : x + t \in 0 .. (width_ - 1)
               /\ \A t \in (-arm.top) .. arm.bottom : y + t \in 0 .. (height_ - 1)

\* Arms that end at the image border with steps to spare: a left arm of the
\* last column and a bottom arm of the first row, each across the whole image.
C9_Witness ==
    /\ call.op = "BuildArms"
    /\ width_ > 1 /\ height_ > 1
    /\ ArmAt(width_ - 1, 0).left = width_ - 1 /\ width_ - 1 < ArmBound
    /\ ArmAt(0, 0).bottom = height_ - 1 /\ height_ - 1 < ArmBound

\* Whether step k from (x, y) in direction (dx, dy) is accepted: the pixel it
\* reaches is (x + dx * (k + 1), y + dy * (k + 1)), the one before it the pixel
\* of step k - 1.
Accepted(x, y, dx, dy, k) ==
    LET ag == aggregator_
        xk == x + dx * (k + 1)
        yk == y + dy * (k + 1)
        c0 == img_left_[y * width_ + x]
    IN /\ k < Min(ag.cross_L1_, MAX_ARM_LENGTH)
       /\ xk \in 0 .. (width_ - 1) /\ yk \in 0 .. (height_ - 1)
       /\ ColorDist(img_left_[yk * width_ + xk], c0) < ag.cross_t1_
       /\ k > 0 => ColorDist(img_left_[yk * width_ + xk],
                             img_left_[(y + dy * k) * width_ + x + dx * k]) < ag.cross_t1_
       /\ k + 1 > ag.cross_L2_ =>
              ColorDist(img_left_[yk * width_ + xk], c0) < ag.cross_t2_

\* The length of the largest prefix of accepted steps.
LargestPrefix(x, y, dx, dy) ==
    CHOOSE n \in 0 .. (width_ + height_) :
        /\ ~Accepted(x, y, dx, dy, n)
        /\ \A k \in 0 .. (n - 1) : Accepted(x, y, dx, dy, k)

\* C10: each of the four arm lengths of a pixel is the length of the largest
\* prefix of steps k = 0, 1, 2, ... in its direction that are all accepted
\* (k < min(cross_L1, MAX_ARM_LENGTH) and inside the image; colour nearer than
\* cross_t1 to the centre's; for k > 0 nearer than cross_t1 to the previous
\* step's; for k + 1 > cross_L2 nearer than cross_t2 to the centre's).
C10_ArmIsLargestPrefix ==
    call.op = "BuildArms" =>
        \A x \in 0 .. (width_ - 1), y \in 0 .. (height_ - 1) :
            /\ ArmAt(x, y).left = LargestPrefix(x, y, -1, 0)
            /\ ArmAt(x, y).right = LargestPrefix(x, y, 1, 0)
            /\ ArmAt(x, y).top = LargestPrefix(x, y, 0, -1)
            /\ ArmAt(x, y).bottom = LargestPrefix(x, y, 0, 1)

\* A bottom arm of length cross_L2 >= 1 stopped by cross_t2 alone: the next
\* pixel is inside the image, within the step bound, and nearer than cross_t1
\* both to the centre's colour and to the previous step's.
C10_Witness ==
    /\ call.op = "BuildArms"
    /\ \E x \in 0 .. (width_ - 1), y \in 0 .. (height_ - 2) :
          LET n == ArmAt(x, y).bottom
          IN /\ n >= 1 /\ n = aggregator_.cross_L2_ /\ n < ArmBound
             /\ y + n + 1 < height_
             /\ ColorDist(img_left_[(y + n + 1) * width_ + x], img_left_[y * width_ + x])
                    < aggregator_.cross_t1_
             /\ ColorDist(img_left_[(y + n + 1) * width_ + x],
                          img_left_[(y + n) * width_ + x]) < aggregator_.cross_t1_

-----------------------------------------------------------------------------
(* The disparity pickers on their own *)

\* The disparity ranges the pickers are run on (one of them without the
\* disparity 0), the image they are run on, and the values of the aggregated
\* costs.
PickRanges == {<<0, 3>>, <<-1, 2>>, <<1, 3>>}
PickShape == <<2, 1>>
PickCosts == {Flt(1), Flt(2), Flt(3)}

InitPick ==
    /\ \E r \in PickRanges :
          /\ option_ = OptionWith(r[1], r[2], TRUE, TRUE, FALSE)
          /\ \E cost \in [0 .. (PickShape[1] * PickShape[2] * (r[2] - r[1]) - 1) -> PickCosts] :
                aggregator_ = [Constructed.aggregator_ EXCEPT
                                  !.width_ = PickShape[1], !.height_ = PickShape[2],
                                  !.min_disparity_ = r[1], !.max_disparity_ = r[2],
                                  !.is_initialized_ = TRUE,
                                  !.cost_aggr_ = Stored(cost)]
    /\ width_ = PickShape[1]
    /\ height_ = PickShape[2]
    /\ is_initialized_ = TRUE
    /\ disp_left_ = Fill(PickShape[1] * PickShape[2], Flt(0))
    /\ disp_right_ = Fill(PickShape[1] * PickShape[2], Flt(0))
    /\ img_left_ = Null
    /\ img_right_ = Null
    /\ cost_computer_ = Constructed.cost_computer_
    /\ refiner_ = Constructed.refiner_
    /\ out_disp = Null
    /\ call = [op |-> "none", nonnull |-> TRUE, ret |-> FALSE, fixed |-> TRUE,
               inits |-> 0, matches |-> 0, reset_failed |-> FALSE, stages |-> << >>,
               steps |-> << >>, wta |-> Null, median_in |-> Null, ub |-> {}]

\* ComputeDisparity() on the aggregated costs.
DoComputeDisparity ==
    /\ call.op = "none"
    /\ \E junk \in Junks :
          disp_left_' = ComputeDisparity(disp_left_, aggregator_.cost_aggr_, width_, height_,
                                         option_.min_disparity, option_.max_disparity, junk)
    /\ call' = [call EXCEPT !.op = "ComputeDisparity"]
    /\ UNCHANGED <<width_, height_, option_, is_initialized_, disp_right_, img_left_,
                   img_right_, cost_computer_, aggregator_, refiner_, out_disp>>

\* ComputeDisparityRight() after it.
DoComputeDisparityRight ==
    /\ call.op = "ComputeDisparity"
    /\ \E junk \in Junks :
          disp_right_' = ComputeDisparityRight(disp_right_, aggregator_.cost_aggr_, width_,
                                               height_, option_.min_disparity,
                                               option_.max_disparity, junk)
    /\ call' = [call EXCEPT
                   !.op = "ComputeDisparityRight",
                   !.ub = IF RightIndexOutside(aggregator_.cost_aggr_, width_, height_,
                                               option_.min_disparity, option_.max_disparity)
                          THEN {"wta"} ELSE {}]
    /\ UNCHANGED <<width_, height_, option_, is_initialized_, disp_left_, img_left_,
                   img_right_, cost_computer_, aggregator_, refiner_, out_disp>>

NextPick == DoComputeDisparity \/ DoComputeDisparityRight

SpecPick == InitPick /\ [][NextPick]_vars

\* The cost of candidate d_idx at left pixel (j, i), and the cost the right
\* pixel (j, i) takes for it: that of left column j + d, Large_Float when the
\* column is outside the image.
LeftCostAt(i, j, d_idx) ==
    aggregator_.cost_aggr_[(i * width_ + j) * DispRange + d_idx]
RightCostAt(i, j, d_idx) ==
    LET col_left == j + d_idx + option_.min_disparity
    IN IF col_left >= 0 /\ col_left < width_
       THEN aggregator_.cost_aggr_[(i * width_ + col_left) * DispRange + d_idx]
       ELSE Large_Float

\* Whether d_idx is the first minimum of the costs c over 0 .. DispRange-1 and
\* lies strictly inside the range.
InteriorArgMin(c, d_idx) ==
    /\ 0 < d_idx /\ d_idx < DispRange - 1
    /\ \A e \in 0 .. (DispRange - 1) : FLe(c[d_idx], c[e])
    /\ \A e \in 0 .. (d_idx - 1) : FGt(c[e], c[d_idx])

\* Whether the stored value v is d_idx + min_disparity plus a term strictly
\* inside (-0.5, +0.5).
StrictlyWithinHalf(v, d_idx) ==
    /\ IsFinite(v)
    /\ 2 * Abs(v - Flt(d_idx + option_.min_disparity)) < Scale

\* C6: for every pixel whose arg-min (the first minimum) is interior, the value
\* either picker writes is the arg-min's disparity plus a sub-pixel term
\* strictly inside (-0.5, +0.5).
C6_SubPixelInside ==
    /\ call.op \in {"ComputeDisparity", "ComputeDisparityRight"} =>
          \A i \in 0 .. (height_ - 1), j \in 0 .. (width_ - 1), d_idx \in 0 .. (DispRange - 1) :
             InteriorArgMin([e \in 0 .. (DispRange - 1) |-> LeftCostAt(i, j, e)], d_idx) =>
                StrictlyWithinHalf(disp_left_[i * width_ + j], d_idx)
    /\ call.op = "ComputeDisparityRight" =>
          \A i \in 0 .. (height_ - 1), j \in 0 .. (width_ - 1), d_idx \in 0 .. (DispRange - 1) :
             InteriorArgMin([e \in 0 .. (DispRange - 1) |-> RightCostAt(i, j, e)], d_idx) =>
                StrictlyWithinHalf(disp_right_[i * width_ + j], d_idx)

-----------------------------------------------------------------------------
(* Aggregation on its own *)

\* The <<width, height, disp_range>> of the volumes aggregated, the colours of
\* the images, the costs of the volumes and the values of cross_L1.
AggrShapes == {<<3, 2, 1>>, <<2, 1, 2>>}
AggrColours == {ArmCol0, ArmCol3}
AggrCosts == {Flt(1), Flt(4)}
AggrL1 == {2}

\* The number of iterations Aggregate is called with.
NumIters == 4

InitAggr ==
    /\ \E shape \in AggrShapes, cross_L1 \in AggrL1 :
          /\ width_ = shape[1]
          /\ height_ = shape[2]
          /\ img_left_ \in [0 .. (shape[1] * shape[2] - 1) -> AggrColours]
          /\ \E cost \in [0 .. (shape[1] * shape[2] * shape[3] - 1) -> AggrCosts] :
                cost_computer_ = [Constructed.cost_computer_ EXCEPT
                                     !.width_ = shape[1], !.height_ = shape[2],
                                     !.max_disparity_ = shape[3],
                                     !.is_initialized_ = TRUE,
                                     !.cost_init_ = Stored(cost)]
          /\ aggregator_ = [ArmAggregator(shape[1], shape[2], cross_L1, 1) EXCEPT
                               !.max_disparity_ = shape[3],
                               !.vec_sup_count_ = <<Fill(shape[1] * shape[2], 0),
                                                    Fill(shape[1] * shape[2], 0)>>,
                               !.cost_aggr_ = Fill(shape[1] * shape[2] * shape[3], Flt(0))]
    /\ option_ = Constructed.option_
    /\ is_initialized_ = TRUE
    /\ disp_left_ = Null
    /\ disp_right_ = Null
    /\ img_right_ = Null
    /\ refiner_ = Constructed.refiner_
    /\ out_disp = Null
    /\ call = [op |-> "none", k |-> 0, d |-> 0, horizontal_first |-> TRUE,
               disparity |-> 0, ran_horizontal_first |-> TRUE, before |-> Null]

\* Aggregate() up to its loops: BuildArms(), ComputeSupPixelCount() and the copy
\* of the initial costs.
DoAggregateSetup ==
    /\ call.op = "none"
    /\ \E arms \in {BuildArms(aggregator_, img_left_)} :
          aggregator_' = [aggregator_ EXCEPT
                             !.vec_cross_arms_ = arms,
                             !.vec_sup_count_ = ComputeSupPixelCount(aggregator_, arms),
                             !.cost_aggr_ = cost_computer_.cost_init_]
    /\ call' = [call EXCEPT !.op = "Aggregate"]
    /\ UNCHANGED <<width_, height_, option_, is_initialized_, disp_left_, disp_right_,
                   img_left_, img_right_, cost_computer_, refiner_, out_disp>>

\* The next AggregateInArms(d, horizontal_first) of Aggregate's loops: call.k
\* and call.d are the loop variables, call.horizontal_first the orientation of
\* the iteration.
DoAggregateInArms ==
    /\ call.op # "none"
    /\ call.k < NumIters
    /\ aggregator_' = [aggregator_ EXCEPT
                          !.cost_aggr_ = AggregateInArms(aggregator_, call.d,
                                                         call.horizontal_first)]
    /\ call' = [op |-> "AggregateInArms",
                k |-> IF call.d + 1 < aggregator_.max_disparity_ THEN call.k ELSE call.k + 1,
                d |-> IF call.d + 1 < aggregator_.max_disparity_ THEN call.d + 1
                      ELSE aggregator_.min_disparity_,
                horizontal_first |-> IF call.d + 1 < aggregator_.max_disparity_
                                     THEN call.horizontal_first
                                     ELSE ~call.horizontal_first,
                disparity |-> call.d, ran_horizontal_first |-> call.horizontal_first,
                before |-> aggregator_.cost_aggr_]
    /\ UNCHANGED <<width_, height_, option_, is_initialized_, disp_left_, disp_right_,
                   img_left_, img_right_, cost_computer_, refiner_, out_disp>>

NextAggr == DoAggregateSetup \/ DoAggregateInArms

SpecAggr == InitAggr /\ [][NextAggr]_vars

\* disp_range as the aggregator computes it.
AggrRange == aggregator_.max_disparity_ - aggregator_.min_disparity_

\* The pixel terms the two passes sum for pixel (x, y): <<x', y'>> once for
\* every step t along the second-direction arm of (x, y) and step s along the
\* first-direction arm of the pixel t steps away.
CrossTerms(x, y, horizontal_first) ==
    IF horizontal_first
    THEN {<<x + s, y + t>> : <<s, t>> \in
             {st \in ((-width_) .. width_) \X ((-height_) .. height_) :
                 /\ -ArmAt(x, y).top <= st[2] /\ st[2] <= ArmAt(x, y).bottom
                 /\ -ArmAt(x, y + st[2]).left <= st[1]
                 /\ st[1] <= ArmAt(x, y + st[2]).right}}
    ELSE {<<x + s, y + t>> : <<s, t>> \in
             {st \in ((-width_) .. width_) \X ((-height_) .. height_) :
                 /\ -ArmAt(x, y).left <= st[1] /\ st[1] <= ArmAt(x, y).right
                 /\ -ArmAt(x + st[1], y).top <= st[2]
                 /\ st[2] <= ArmAt(x + st[1], y).bottom}}

\* The sum of slice disp of the volume cost over the pixels of the set terms.
RECURSIVE SliceSum(_, _, _)
SliceSum(cost, disp, terms) ==
    IF terms = {} THEN Flt(0)
    ELSE LET p == CHOOSE q \in terms : TRUE
         IN FAdd(cost[(p[2] * width_ + p[1]) * AggrRange + disp],
                 SliceSum(cost, disp, terms \ {p}))

-----------------------------------------------------------------------------
(* The sweeps of the scanline optimizer on their own *)

\* The <<width, height>> of the volumes swept, their disparity ranges, and
\* their images: the middle column takes either colour.
ScanShape == <<3, 2>>
ScanRanges == {<<0, 2>>, <<-1, 2>>}
ScanImages == {Stored(img) : img \in {f \in [0 .. 5 -> {ColA, ColC}] :
                                         \A i \in {0, 2, 3, 5} : f[i] = ColA}}

\* The cost volumes swept, of range disparities: at each pixel either the first
\* or the last disparity costs 0.0 and the others 5.0.
ScanVolumes(range) ==
    {Stored([i \in 0 .. (6 * range - 1) |->
                IF i % range = c[i \div range] * (range - 1) THEN Flt(0) ELSE Flt(5)]) :
        c \in [0 .. 5 -> {0, 1}]}

InitScan ==
    /\ width_ = ScanShape[1]
    /\ height_ = ScanShape[2]
    /\ \E r \in ScanRanges :
          /\ option_ = OptionWith(r[1], r[2], TRUE, TRUE, FALSE)
          /\ cost_computer_ = [Constructed.cost_computer_ EXCEPT
                                  !.width_ = ScanShape[1], !.height_ = ScanShape[2],
                                  !.is_initialized_ = TRUE,
                                  !.cost_init_ = Fill(6 * (r[2] - r[1]), Flt(0))]
          /\ \E cost \in ScanVolumes(r[2] - r[1]) :
                aggregator_ = [Constructed.aggregator_ EXCEPT
                                  !.width_ = ScanShape[1], !.height_ = ScanShape[2],
                                  !.is_initialized_ = TRUE, !.cost_aggr_ = cost]
    /\ img_left_ \in ScanImages
    /\ img_right_ \in ScanImages
    /\ is_initialized_ = TRUE
    /\ disp_left_ = Null
    /\ disp_right_ = Null
    /\ refiner_ = Constructed.refiner_
    /\ out_disp = Null
    /\ call = [op |-> "none", sweep |-> 0, is_forward |-> TRUE, src |-> Null]

\* The optimizer with the parameters ScanlineOptimize() sets.
ScanLine ==
    [width_ |-> width_, height_ |-> height_,
     min_disparity_ |-> option_.min_disparity, max_disparity_ |-> option_.max_disparity,
     so_p1_ |-> option_.so_p1, so_p2_ |-> option_.so_p2, so_tso_ |-> option_.so_tso]

\* The next left/right sweep of Optimize(): the first goes forward from
\* cost_aggr_ to cost_init_, the second backward from cost_init_ to cost_aggr_.
DoScanlineOptimizeLeftRight ==
    /\ call.sweep \in {0, 1}
    /\ IF call.sweep = 0
       THEN /\ cost_computer_' =
                  [cost_computer_ EXCEPT !.cost_init_ =
                      ScanlineOptimizeLeftRight(ScanLine, img_left_, img_right_,
                                                aggregator_.cost_aggr_, TRUE)]
            /\ call' = [op |-> "ScanlineOptimizeLeftRight", sweep |-> 1,
                        is_forward |-> TRUE, src |-> aggregator_.cost_aggr_]
            /\ UNCHANGED aggregator_
       ELSE /\ aggregator_' =
                  [aggregator_ EXCEPT !.cost_aggr_ =
                      ScanlineOptimizeLeftRight(ScanLine, img_left_, img_right_,
                                                cost_computer_.cost_init_, FALSE)]
            /\ call' = [op |-> "ScanlineOptimizeLeftRight", sweep |-> 2,
                        is_forward |-> FALSE, src |-> cost_computer_.cost_init_]
            /\ UNCHANGED cost_computer_
    /\ UNCHANGED <<width_, height_, option_, is_initialized_, disp_left_, disp_right_,
                   img_left_, img_right_, refiner_, out_disp>>

\* The next up/down sweep of Optimize(): the third sweep goes forward from
\* cost_aggr_ to cost_init_, the fourth backward from cost_init_ to cost_aggr_.
DoScanlineOptimizeUpDown ==
    /\ call.sweep \in {2, 3}
    /\ IF call.sweep = 2
       THEN /\ cost_computer_' =
                  [cost_computer_ EXCEPT !.cost_init_ =
                      ScanlineOptimizeUpDown(ScanLine, img_left_, img_right_,
                                             aggregator_.cost_aggr_, TRUE)]
            /\ call' = [op |-> "ScanlineOptimizeUpDown", sweep |-> 3,
                        is_forward |-> TRUE, src |-> aggregator_.cost_aggr_]
            /\ UNCHANGED aggregator_
       ELSE /\ aggregator_' =
                  [aggregator_ EXCEPT !.cost_aggr_ =
                      ScanlineOptimizeUpDown(ScanLine, img_left_, img_right_,
                                             cost_computer_.cost_init_, FALSE)]
            /\ call' = [op |-> "ScanlineOptimizeUpDown", sweep |-> 4,
                        is_forward |-> FALSE, src |-> cost_computer_.cost_init_]
            /\ UNCHANGED cost_computer_
    /\ UNCHANGED <<width_, height_, option_, is_initialized_, disp_left_, disp_right_,
                   img_left_, img_right_, refiner_, out_disp>>

NextScan == DoScanlineOptimizeLeftRight \/ DoScanlineOptimizeUpDown

SpecScan == InitScan /\ [][NextScan]_vars

\* The sweep that led to the current state: whether it ran along the columns,
\* its direction, and the volume it wrote.
SweepVertical == call.op = "ScanlineOptimizeUpDown"
SweepDirection == IF call.is_forward THEN 1 ELSE -1
SweepDst == IF call.is_forward THEN cost_computer_.cost_init_ ELSE aggregator_.cost_aggr_

\* Whether pixel (x, y) is the first position of its row or column in that
\* sweep, and the pixel index of the position before it when it is not.
SweepStart(x, y) ==
    IF SweepVertical THEN y = (IF call.is_forward THEN 0 ELSE height_ - 1)
    ELSE x = (IF call.is_forward THEN 0 ELSE width_ - 1)
SweepPrev(x, y) ==
    IF SweepVertical THEN (y - SweepDirection) * width_ + x
    ELSE y * width_ + x - SweepDirection

\* d1 at position (x, y), whether the right-image column of disparity index d
\* is inside (0, width - 1), and the right-image colour distance there.
SweepD1(x, y) == ColorDist(img_left_[y * width_ + x], img_left_[SweepPrev(x, y)])
SweepXr(x, d) == x - d - option_.min_disparity
SweepXrInside(x, d) == SweepXr(x, d) > 0 /\ SweepXr(x, d) < width_ - 1
SweepRightDist(x, y, d) ==
    ColorDist(img_right_[y * width_ + SweepXr(x, d)],
              img_right_[SweepPrev(SweepXr(x, d), y)])

\* d2 at (x, y, d) as the table of penalties has it: the right-image distance
\* when the column is inside, d1 otherwise.
SweepD2(x, y, d) ==
    IF SweepXrInside(x, d) THEN SweepRightDist(x, y, d) ELSE SweepD1(x, y)

\* d2 at (x, y, d) as the sweep holds it: the right-image distance of the last
\* disparity index up to d whose column is inside, d1 when there is none.
SweepD2Held(x, y, d) ==
    LET inside == {e \in 0 .. d : SweepXrInside(x, e)}
    IN IF inside = {} THEN SweepD1(x, y)
       ELSE SweepRightDist(x, y, CHOOSE e \in inside : \A f \in inside : f <= e)

\* The penalties <<P1, P2>> of the table for the distances d1 and d2.
SweepTable(d1, d2) ==
    IF d1 < option_.so_tso /\ d2 < option_.so_tso THEN <<option_.so_p1, option_.so_p2>>
    ELSE IF d1 >= option_.so_tso /\ d2 >= option_.so_tso
         THEN <<FDivInt(option_.so_p1, 10), FDivInt(option_.so_p2, 10)>>
    ELSE <<FDivInt(option_.so_p1, 4), FDivInt(option_.so_p2, 4)>>

\* L[p0, e] for the position with pixel index p0: the destination value, and
\* Large_Float for e = -1 and e = disp_range; and the minimum over all of them.
SweepL(p0, e) ==
    IF e < 0 \/ e >= DispRange THEN Large_Float ELSE SweepDst[p0 * DispRange + e]
SweepMinL(p0) ==
    CHOOSE m \in {SweepL(p0, e) : e \in (-1) .. DispRange} :
        \A e \in (-1) .. DispRange : FLe(m, SweepL(p0, e))

\* Whether the destination entry of (x, y, d) is what the recurrence gives with
\* the penalties P.
SweepEntryFollows(x, y, d, P) ==
    LET k == (y * width_ + x) * DispRange + d
        p0 == SweepPrev(x, y)
    IN IF SweepStart(x, y) THEN SweepDst[k] = call.src[k]
       ELSE SweepDst[k] =
               FDivInt(FAdd(call.src[k],
                            FMin(FMin(SweepL(p0, d), FAdd(SweepL(p0, d - 1), P[1])),
                                 FMin(FAdd(SweepL(p0, d + 1), P[1]),
                                      FAdd(SweepMinL(p0), P[2])))), 2)

C14_PenaltyTable ==
    call.op \in {"ScanlineOptimizeLeftRight", "ScanlineOptimizeUpDown"} =>
        \A x \in 0 .. (width_ - 1), y \in 0 .. (height_ - 1), d \in 0 .. (DispRange - 1) :
           SweepEntryFollows(x, y, d, SweepTable(SweepD1(x, y), SweepD2(x, y, d)))

-----------------------------------------------------------------------------
(* The scanline optimizer within Match *)

\* The aggregator's buffer as CostAggregation() left it in the Match that led to
\* the current state, worked out again from the images.
AggregatedAgain ==
    Aggregate(aggregator_, img_left_,
              Compute(cost_computer_, img_left_, img_right_), NumIters).cost_aggr_

FirstArgMin(c) ==
    CHOOSE d \in 0 .. (DispRange - 1) :
        /\ \A e \in 0 .. (DispRange - 1) : FLe(c[d], c[e])
        /\ \A e \in 0 .. (d - 1) : FGt(c[e], c[d])

\* C15: when the arg-min of a pixel's candidate costs is the first or the last
\* disparity of the range, the left picker writes Invalid_Float and the right
\* picker writes that disparity as an integer; the right picker never writes
\* Invalid_Float; the right pixel of column j takes for disparity d the cost
\* of left column j + d, and Large_Float when that column is outside the image.
C15_ArgMinAtEnds ==
    /\ call.op \in {"ComputeDisparity", "ComputeDisparityRight"} =>
          \A i \in 0 .. (height_ - 1), j \in 0 .. (width_ - 1) :
             FirstArgMin([e \in 0 .. (DispRange - 1) |-> LeftCostAt(i, j, e)])
                   \in {0, DispRange - 1}
                => disp_left_[i * width_ + j] = Invalid_Float
    /\ call.op = "ComputeDisparityRight" =>
          \A i \in 0 .. (height_ - 1), j \in 0 .. (width_ - 1) :
             LET d == FirstArgMin([e \in 0 .. (DispRange - 1) |-> RightCostAt(i, j, e)])
             IN /\ disp_right_[i * width_ + j] # Invalid_Float
                /\ d \in {0, DispRange - 1}
                      => disp_right_[i * width_ + j] = Flt(d + option_.min_disparity)


-----------------------------------------------------------------------------
(* The steps of the refiner on their own *)

\* The <<width, height>> of the maps refined, their disparity range, and the
\* left images: one whose colour rises evenly, so that every arm has length 1,
\* and one of two flat parts.
RefineShape == <<6, 1>>
RefineRange == <<0, 5>>
RefineImages ==
    {Image(<<<<0, 0, 0>>, <<3, 0, 0>>, <<6, 0, 0>>, <<9, 0, 0>>, <<12, 0, 0>>, <<15, 0, 0>>>>),
     Image(<<ColA, ColA, ColA, ColA, ColE, ColE>>)}

\* The left disparities a pixel may have after ComputeDisparity (none, 1.0 or
\* 2.5), the right maps, and the irv_ts values.
RefineLeftDisps == {Invalid_Float, Flt(1), FRat(5, 2)}
RefineRightMaps ==
    {Fill(6, Flt(1)), Fill(6, Flt(3)),
     Stored([i \in 0 .. 5 |-> IF i % 2 = 0 THEN Flt(0) ELSE Flt(3)])}
RefineTs == {0, 1}

\* num_iters of IterativeRegionVoting.
RegionVotingIters == 5

\* The aggregator whose arms the refiner is given.
RefineAggregator ==
    ArmAggregator(RefineShape[1], RefineShape[2],
                  DefaultOption.cross_L1, DefaultOption.cross_L2)

InitRefine ==
    /\ width_ = RefineShape[1]
    /\ height_ = RefineShape[2]
    /\ \E irv_ts \in RefineTs :
          /\ option_ = [OptionWith(RefineRange[1], RefineRange[2], TRUE, TRUE, FALSE)
                           EXCEPT !.irv_ts = irv_ts]
          /\ refiner_ = SetParam([Constructed.refiner_ EXCEPT
                                     !.width_ = RefineShape[1],
                                     !.height_ = RefineShape[2],
                                     !.vec_edge_left_ = Fill(6, 0)],
                                 RefineRange[1], RefineRange[2], irv_ts,
                                 DefaultOption.irv_th, DefaultOption.lrcheck_thres,
                                 TRUE, TRUE, TRUE, FALSE)
    /\ img_left_ \in RefineImages
    /\ img_right_ = Null
    /\ aggregator_ = [RefineAggregator EXCEPT
                         !.vec_cross_arms_ = BuildArms(RefineAggregator, img_left_)]
    /\ cost_computer_ = Constructed.cost_computer_
    /\ is_initialized_ = TRUE
    /\ disp_left_ \in {Stored(f) : f \in [0 .. 5 -> RefineLeftDisps]}
    /\ disp_right_ \in RefineRightMaps
    /\ out_disp = Null
    /\ call = [op |-> "none", it |-> 0, k |-> 0, before |-> Null, start |-> Null,
               ub |-> FALSE]

\* disp_left_ and the two lists as the refiner holds them.
RefineState ==
    [disp_left_ |-> disp_left_, mismatches_ |-> refiner_.mismatches_,
     occlusions_ |-> refiner_.occlusions_, ub |-> call.ub]

\* Step 1 of Refine().
DoOutlierDetection ==
    /\ call.op = "none"
    /\ refiner_.do_lr_check_
    /\ \E od \in {OutlierDetection(disp_left_, disp_right_, refiner_.width_,
                                   refiner_.height_, refiner_.lrcheck_thres_)} :
          /\ disp_left_' = od.disp_left_
          /\ refiner_' = [refiner_ EXCEPT !.mismatches_ = od.mismatches_,
                                          !.occlusions_ = od.occlusions_]
          /\ call' = [call EXCEPT !.op = "OutlierDetection", !.before = RefineState,
                                  !.start = RefineOutliers(od)]
    /\ UNCHANGED <<width_, height_, option_, is_initialized_, disp_right_,
                   img_left_, img_right_, cost_computer_, aggregator_, out_disp>>

\* The next pass of step 2: list call.k (0: mismatches_, 1: occlusions_) of
\* iteration call.it is voted on and the filled pixels are erased from it.
DoRegionVotingPass ==
    /\ call.op \in {"OutlierDetection", "IterativeRegionVoting"}
    /\ refiner_.do_region_voting_
    /\ refiner_.max_disparity_ - refiner_.min_disparity_ > 0
    /\ call.it < RegionVotingIters
    /\ \E trg_pixels \in {IF call.k = 0 THEN refiner_.mismatches_
                                        ELSE refiner_.occlusions_} :
        \E v \in {VoteLoop(refiner_, aggregator_.vec_cross_arms_, trg_pixels, 1,
                           [disp_left_ |-> disp_left_, ub |-> call.ub])} :
          /\ disp_left_' = v.disp_left_
          /\ refiner_' = IF call.k = 0
                         THEN [refiner_ EXCEPT !.mismatches_ =
                                  EraseFilled(refiner_, v.disp_left_, trg_pixels)]
                         ELSE [refiner_ EXCEPT !.occlusions_ =
                                  EraseFilled(refiner_, v.disp_left_, trg_pixels)]
          /\ call' = [call EXCEPT !.op = "IterativeRegionVoting",
                                  !.it = IF call.k = 1 THEN call.it + 1 ELSE call.it,
                                  !.k = 1 - call.k,
                                  !.before = RefineState,
                                  !.ub = v.ub]
    /\ UNCHANGED <<width_, height_, option_, is_initialized_, disp_right_,
                   img_left_, img_right_, cost_computer_, aggregator_, out_disp>>

\* Step 3 of Refine(), once the passes of step 2 are over.
DoProperInterpolation ==
    /\ call.op = "IterativeRegionVoting"
    /\ call.it = RegionVotingIters
    /\ refiner_.do_interpolating_
    /\ \E pi \in {ProperInterpolation(refiner_, img_left_, RefineState)} :
          /\ disp_left_' = pi.disp_left_
          /\ call' = [call EXCEPT !.op = "ProperInterpolation", !.before = RefineState,
                                  !.ub = pi.ub]
    /\ UNCHANGED <<width_, height_, option_, is_initialized_, disp_right_,
                   img_left_, img_right_, cost_computer_, aggregator_, refiner_,
                   out_disp>>

NextRefine == DoOutlierDetection \/ DoRegionVotingPass \/ DoProperInterpolation

SpecRefine == InitRefine /\ [][NextRefine]_vars

\* The number of entries of list equal to pix.
Occurrences(list, pix) == Cardinality({n \in 1 .. Len(list) : list[n] = pix})

\* Whether the pixels of list follow one another in scanline order.
InScanlineOrder(list) ==
    \A n \in 1 .. (Len(list) - 1) :
        list[n][2] * width_ + list[n][1] < list[n + 1][2] * width_ + list[n + 1][1]

\* The left map as it is stored when OutlierDetection visits pixel k: the
\* pixels before k as the step left them, the others as it received them.
MapWhenVisited(k) ==
    [j \in DOMAIN disp_left_ |-> IF j < k THEN disp_left_[j] ELSE call.before.disp_left_[j]]

\* For pixel (x, y) with disparity d before the step: the column xr of its match
\* in the right view, whether the pixel passes the check, and whether it counts
\* as an occlusion.
CheckXr(x, y) == lround(FSub(Flt(x), call.before.disp_left_[y * width_ + x]))
CheckKept(x, y) ==
    LET d == call.before.disp_left_[y * width_ + x]
    IN /\ d # Invalid_Float
       /\ CheckXr(x, y) \in 0 .. (width_ - 1)
       /\ FLe(FAbs(FSub(d, disp_right_[y * width_ + CheckXr(x, y)])),
              refiner_.lrcheck_thres_)
CheckOccluded(x, y) ==
    LET d   == call.before.disp_left_[y * width_ + x]
        xr  == CheckXr(x, y)
        xrl == lround(FAdd(Flt(xr), disp_right_[y * width_ + xr]))
    IN /\ d # Invalid_Float
       /\ xr \in 0 .. (width_ - 1)
       /\ xrl \in 1 .. (width_ - 1)
       /\ FGt(MapWhenVisited(y * width_ + x)[y * width_ + xrl], d)

\* C16: after the left/right check a pixel keeps its disparity d iff d is
\* valid, xr = round(x - d) is a column of the image and d differs from the
\* right disparity at (y, xr) by at most lrcheck_thres; every other pixel is
\* Invalid_Float and is listed exactly once, among the occlusions iff
\* xrl = round(xr + d_r) is in (0, width) and the left disparity stored at
\* (y, xrl) at that moment exceeds d, among the mismatches otherwise; both lists
\* are in scanline order and together hold exactly the invalid pixels.
C16_LeftRightCheck ==
    call.op = "OutlierDetection" =>
        /\ \A y \in 0 .. (height_ - 1) : \A x \in 0 .. (width_ - 1) :
              LET k   == y * width_ + x
                  occ == Occurrences(refiner_.occlusions_, <<x, y>>)
                  mis == Occurrences(refiner_.mismatches_, <<x, y>>)
              IN IF CheckKept(x, y)
                 THEN disp_left_[k] = call.before.disp_left_[k] /\ occ = 0 /\ mis = 0
                 ELSE /\ disp_left_[k] = Invalid_Float
                      /\ occ + mis = 1
                      /\ occ = 1 <=> CheckOccluded(x, y)
        /\ InScanlineOrder(refiner_.occlusions_)
        /\ InScanlineOrder(refiner_.mismatches_)
        /\ {k \in DOMAIN disp_left_ : disp_left_[k] = Invalid_Float}
               = {refiner_.occlusions_[n][2] * width_ + refiner_.occlusions_[n][1] :
                      n \in 1 .. Len(refiner_.occlusions_)}
                 \cup {refiner_.mismatches_[n][2] * width_ + refiner_.mismatches_[n][1] :
                           n \in 1 .. Len(refiner_.mismatches_)}

\* A check that kept a pixel, listed an occlusion on account of a disparity it
\* had itself invalidated before, and listed as mismatches a pixel that had no
\* disparity, one whose match is outside the image and one that failed the
\* occlusion test.
C16_Witness ==
    /\ call.op = "OutlierDetection"
    /\ \E x \in 0 .. (width_ - 1) : CheckKept(x, 0)
    /\ \E x \in 0 .. (width_ - 1) :
          /\ CheckOccluded(x, 0)
          /\ LET xr == CheckXr(x, 0)
                 xrl == lround(FAdd(Flt(xr), disp_right_[xr]))
             IN call.before.disp_left_[xrl] # Invalid_Float
                /\ ~FGt(call.before.disp_left_[xrl], call.before.disp_left_[x])
    /\ \E n \in 1 .. Len(refiner_.mismatches_) :
          call.before.disp_left_[refiner_.mismatches_[n][1]] = Invalid_Float
    /\ \E n \in 1 .. Len(refiner_.mismatches_) :
          /\ call.before.disp_left_[refiner_.mismatches_[n][1]] # Invalid_Float
          /\ CheckXr(refiner_.mismatches_[n][1], 0) < 0
    /\ \E n \in 1 .. Len(refiner_.mismatches_) :
          /\ call.before.disp_left_[refiner_.mismatches_[n][1]] # Invalid_Float
          /\ CheckXr(refiner_.mismatches_[n][1], 0) >= 0


\* The index of pixel pix = <<x, y>> in a map.
PixIndex(pix) == pix[2] * width_ + pix[1]

\* The indices of the pixels of the cross region of pixel pix: the rows its
\* vertical arm spans, in each the columns the horizontal arm of the pixel of
\* that row in the column of pix spans.
CrossRegion(pix) ==
    LET arms == aggregator_.vec_cross_arms_
    IN UNION {{(pix[2] + t) * width_ + pix[1] + s :
                  s \in (-arms[(pix[2] + t) * width_ + pix[1]].left) ..
                        arms[(pix[2] + t) * width_ + pix[1]].right} :
              t \in (-arms[PixIndex(pix)].top) .. arms[PixIndex(pix)].bottom}

\* The votes of map for pixel pix: the pixels of its cross region with a valid
\* disparity; those of them voting for bin b; the fullest bin's votes; and the
\* first fullest bin.
Votes(map, pix) == {j \in CrossRegion(pix) : map[j] # Invalid_Float}
VotesFor(map, pix, b) ==
    {j \in Votes(map, pix) : lround(map[j]) - refiner_.min_disparity_ = b}
VoteBins == 0 .. (refiner_.max_disparity_ - refiner_.min_disparity_ - 1)
MaxVotes(map, pix) ==
    CHOOSE h \in 0 .. Cardinality(Votes(map, pix)) :
        /\ \A b \in VoteBins : Cardinality(VotesFor(map, pix, b)) <= h
        /\ h = 0 \/ \E b \in VoteBins : Cardinality(VotesFor(map, pix, b)) = h
BestBin(map, pix) ==
    CHOOSE b \in VoteBins :
        /\ Cardinality(VotesFor(map, pix, b)) = MaxVotes(map, pix)
        /\ \A c \in VoteBins : c < b =>
              Cardinality(VotesFor(map, pix, c)) < MaxVotes(map, pix)

\* Whether the votes of map for pixel pix are enough for the pixel to be filled.
VoteWins(map, pix) ==
    LET count == Cardinality(Votes(map, pix))
        max_h == MaxVotes(map, pix)
    IN /\ count > refiner_.irv_ts_
       /\ count > 0
       /\ FGt(FDiv(Flt(max_h), Flt(count)), refiner_.irv_th_)

\* The pass from the current state to the next over list (the one visited): the
\* map as it is stored when entry n is visited has the values the pass gave to
\* the entries before n.
MapAtEntry(list, n) ==
    [j \in DOMAIN disp_left_ |->
        IF \E m \in 1 .. (n - 1) : PixIndex(list[m]) = j
        THEN disp_left_'[j] ELSE disp_left_[j]]
PassFollows(list) ==
    /\ \A n \in 1 .. Len(list) :
          LET j == PixIndex(list[n])
          IN IF disp_left_[j] # Invalid_Float THEN disp_left_'[j] = disp_left_[j]
             ELSE IF VoteWins(MapAtEntry(list, n), list[n])
             THEN disp_left_'[j] = Flt(BestBin(MapAtEntry(list, n), list[n])
                                       + refiner_.min_disparity_)
             ELSE disp_left_'[j] = Invalid_Float
    /\ \A j \in DOMAIN disp_left_ :
          (\A n \in 1 .. Len(refiner_.mismatches_) : PixIndex(refiner_.mismatches_[n]) # j)
          /\ (\A n \in 1 .. Len(refiner_.occlusions_) : PixIndex(refiner_.occlusions_[n]) # j)
          => disp_left_'[j] = disp_left_[j]

\* C17: region voting runs 5 iterations, each a pass over the mismatches and
\* then one over the occlusions; a pass gives a listed pixel that is still
\* invalid the disparity best_d + min_disparity iff the valid votes of its
\* cross region number more than irv_ts and the fullest bin holds more than
\* irv_th of them, and leaves it Invalid_Float otherwise; after the pass the
\* visited list holds those of its entries that are still Invalid_Float, in
\* their order, the other list is as it was, and no pixel outside the two lists
\* has changed.
C17_RegionVoting ==
    /\ [](call.op = "IterativeRegionVoting" /\ call.it = RegionVotingIters =>
            LET whole == IterativeRegionVoting(refiner_, aggregator_.vec_cross_arms_,
                                               call.start)
            IN /\ disp_left_ = whole.disp_left_
               /\ refiner_.mismatches_ = whole.mismatches_
               /\ refiner_.occlusions_ = whole.occlusions_)
    /\ [][call'.op = "IterativeRegionVoting" =>
            /\ call.k = 0 <=> call'.it = call.it
            /\ call.k = 1 <=> call'.it = call.it + 1
            /\ call'.k = 1 - call.k
            /\ call'.it <= RegionVotingIters
            /\ IF call.k = 0
               THEN /\ PassFollows(refiner_.mismatches_)
                    /\ refiner_'.mismatches_ =
                          SelectSeq(refiner_.mismatches_,
                                    LAMBDA pix : disp_left_'[PixIndex(pix)] = Invalid_Float)
                    /\ refiner_'.occlusions_ = refiner_.occlusions_
               ELSE /\ PassFollows(refiner_.occlusions_)
                    /\ refiner_'.occlusions_ =
                          SelectSeq(refiner_.occlusions_,
                                    LAMBDA pix : disp_left_'[PixIndex(pix)] = Invalid_Float)
                    /\ refiner_'.mismatches_ = refiner_.mismatches_]_vars

\* The mismatch pass of the fifth iteration has filled a pixel.
C17_Witness ==
    /\ call.op = "IterativeRegionVoting"
    /\ call.it = RegionVotingIters - 1
    /\ call.k = 1
    /\ disp_left_ # call.before.disp_left_
    /\ Len(refiner_.mismatches_) < Len(call.before.mismatches_)


\* Whether pixel pix is an entry of list.
Listed(list, pix) == \E n \in 1 .. Len(list) : list[n] = pix

\* Whether none of the 16 rays from pixel pix reaches a valid disparity of map.
NoCandidate(map, pix) ==
    DispCollects(map, width_, height_,
                 Max(Abs(refiner_.max_disparity_), Abs(refiner_.min_disparity_)),
                 pix[1], pix[2], 0) = << >>

\* C18: proper interpolation computes all fills before it writes any: every
\* hole of the mismatches list and every hole of the occlusions list that has
\* a candidate gets the fill computed from the left map as it was when the step
\* started, so that no value the step wrote is a ray candidate for another
\* hole.
C18_FillsFromMapAtStart ==
    call.op = "ProperInterpolation" =>
        /\ \A n \in 1 .. Len(refiner_.mismatches_) :
              ~NoCandidate(call.before.disp_left_, refiner_.mismatches_[n]) =>
                 disp_left_[PixIndex(refiner_.mismatches_[n])]
                    = FillDisp(refiner_, img_left_, call.before.disp_left_, 0,
                               refiner_.mismatches_[n])
        /\ \A n \in 1 .. Len(refiner_.occlusions_) :
              ~NoCandidate(call.before.disp_left_, refiner_.occlusions_[n]) =>
                 disp_left_[PixIndex(refiner_.occlusions_[n])]
                    = FillDisp(refiner_, img_left_, call.before.disp_left_, 1,
                               refiner_.occlusions_[n])

\* C19: a listed hole for which none of the 16 rays reaches a valid disparity
\* when proper interpolation starts is still Invalid_Float after the step.
C19_NoCandidateLeftInvalid ==
    call.op = "ProperInterpolation" =>
        \A y \in 0 .. (height_ - 1) : \A x \in 0 .. (width_ - 1) :
            /\ Listed(refiner_.mismatches_, <<x, y>>)
                  \/ Listed(refiner_.occlusions_, <<x, y>>)
            /\ call.before.disp_left_[y * width_ + x] = Invalid_Float
            /\ NoCandidate(call.before.disp_left_, <<x, y>>)
            => disp_left_[y * width_ + x] = Invalid_Float


-----------------------------------------------------------------------------
(* Match after an Initialize or a Reset that failed *)

\* C20: in any sequence of Initialize, Reset and Match calls on one instance,
\* Match returns true, and runs the stages, only if the most recent Initialize
\* or Reset call returned true; an Initialize that fails leaves the instance
\* not initialised, also when it was initialised before.
C20_MatchNeedsLastInit ==
    /\ call.op = "Match" /\ (call.ret \/ call.stages # << >>) =>
          call.inits > 0 /\ call.init_ret
    /\ call.op \in {"Initialize", "Reset"} /\ ~call.ret => ~is_initialized_


-----------------------------------------------------------------------------
(* The indices of the sub-pixel fit of the right picker *)

\* best_disparity of ComputeDisparityRight at right pixel (j, i) when the loop
\* over the disparities is over.
RightBestDisparity(i, j) ==
    WtaRightLoop(aggregator_.cost_aggr_, width_, option_.min_disparity,
                 option_.max_disparity, i, j, option_.min_disparity,
                 [cost_local |-> << >>, min_cost |-> Large_Float,
                  best_disparity |-> 0]).best_disparity

\* C21: in ComputeDisparityRight, for every right pixel and every
\* min_disparity, whenever the sub-pixel fit is made (best_disparity is neither
\* min_disparity nor max_disparity - 1) the two neighbour indices
\* best_disparity - 1 - min_disparity and best_disparity + 1 - min_disparity
\* lie in [0, disp_range), also at pixels no candidate column of which is
\* inside the image.
C21_SubPixelIndicesInside ==
    call.op = "ComputeDisparityRight" =>
        \A i \in 0 .. (height_ - 1), j \in 0 .. (width_ - 1) :
            LET best_disparity == RightBestDisparity(i, j)
            IN best_disparity # option_.min_disparity
               /\ best_disparity # option_.max_disparity - 1
               => /\ best_disparity - 1 - option_.min_disparity \in 0 .. (DispRange - 1)
                  /\ best_disparity + 1 - option_.min_disparity \in 0 .. (DispRange - 1)


-----------------------------------------------------------------------------
(* The depth-discontinuity adjustment on its own *)

\* The <<width, height>> of the maps adjusted and their disparity ranges.
AdjustShape == <<3, 3>>
AdjustRanges == {<<0, 5>>, <<-2, 3>>, <<2, 7>>}

\* The left maps: every column has no disparity, the second or the fourth
\* disparity of the range, and so has the middle pixel on its own.
AdjustMaps(range) ==
    LET values == {Invalid_Float, Flt(range[1] + 1), Flt(range[1] + 3)}
    IN {Stored([k \in 0 .. 8 |-> IF k = 4 THEN mid ELSE col[k % 3]]) :
           col \in [0 .. 2 -> values], mid \in values}

\* The cost volumes: the costs 1.0, 2.0, 3.0 in turn, from one of them on.
AdjustVolumes(range) ==
    {Stored([k \in 0 .. (9 * (range[2] - range[1]) - 1) |-> Flt(1 + ((k + s) % 3))]) :
        s \in 0 .. 2}

InitAdjust ==
    /\ width_ = AdjustShape[1]
    /\ height_ = AdjustShape[2]
    /\ \E range \in AdjustRanges :
          /\ option_ = OptionWith(range[1], range[2], TRUE, TRUE, TRUE)
          /\ refiner_ = SetParam([Constructed.refiner_ EXCEPT
                                     !.width_ = AdjustShape[1],
                                     !.height_ = AdjustShape[2],
                                     !.vec_edge_left_ = Fill(9, 0)],
                                 range[1], range[2], DefaultOption.irv_ts,
                                 DefaultOption.irv_th, DefaultOption.lrcheck_thres,
                                 TRUE, TRUE, TRUE, TRUE)
          /\ disp_left_ \in AdjustMaps(range)
          /\ \E cost \in AdjustVolumes(range) :
                aggregator_ = [Constructed.aggregator_ EXCEPT
                                  !.width_ = AdjustShape[1], !.height_ = AdjustShape[2],
                                  !.min_disparity_ = range[1], !.max_disparity_ = range[2],
                                  !.is_initialized_ = TRUE, !.cost_aggr_ = cost]
    /\ disp_right_ = Fill(9, Flt(0))
    /\ img_left_ = Null
    /\ img_right_ = Null
    /\ cost_computer_ = Constructed.cost_computer_
    /\ is_initialized_ = TRUE
    /\ out_disp = Null
    /\ call = [op |-> "none", before |-> Null, ub |-> FALSE]

\* Step 4 of Refine().
DoDepthDiscontinuityAdjustment ==
    /\ call.op = "none"
    /\ refiner_.do_discontinuity_adjustment_
    /\ \E junk \in Junks :
        \E dda \in {DepthDiscontinuityAdjustment(refiner_, aggregator_.cost_aggr_, junk[1],
                                                 [disp_left_ |-> disp_left_, ub |-> FALSE])} :
          /\ disp_left_' = dda.disp_left_
          /\ refiner_' = [refiner_ EXCEPT !.vec_edge_left_ =
                             IF refiner_.max_disparity_ - refiner_.min_disparity_ > 0
                             THEN EdgeDetect(disp_left_, refiner_.width_, refiner_.height_,
                                             Flt(5))
                             ELSE @]
          /\ call' = [op |-> "DepthDiscontinuityAdjustment", before |-> disp_left_,
                      ub |-> dda.ub]
    /\ UNCHANGED <<width_, height_, option_, is_initialized_, disp_right_,
                   img_left_, img_right_, cost_computer_, aggregator_, out_disp>>

NextAdjust == DoDepthDiscontinuityAdjustment

SpecAdjust == InitAdjust /\ [][NextAdjust]_vars

\* di and d2i: the offset from the start of a pixel's costs at which the step
\* reads the cost of the disparity value v.
AdjustReadIndex(v) == lround(v)

\* The pixels the step adjusts: those off the first and last column that the
\* edge mask marks and that have a disparity when the step reaches them.  With
\* one column between the first and the last, the step reaches each of them
\* with the map as it received it.
AdjustedPixels ==
    {p \in DOMAIN call.before :
        /\ p % width_ >= 1 /\ p % width_ < width_ - 1
        /\ refiner_.vec_edge_left_[p] = 1
        /\ call.before[p] # Invalid_Float}

\* The disparity values for which the step reads a cost when it adjusts pixel
\* p: that of p and those of its left and right neighbours that have one.
ValuesReadAt(p) ==
    {call.before[q] : q \in {r \in {p - 1, p, p + 1} : call.before[r] # Invalid_Float}}

\* C23: every read of the cost volume that the depth-discontinuity adjustment
\* makes for a pixel with disparity value v is at the disparity index
\* round(v) - min_disparity, and that index lies in [0, disp_range), inside the
\* pixel's own costs, for any min_disparity.
C23_AdjustmentIndexInside ==
    call.op = "DepthDiscontinuityAdjustment" =>
        \A p \in AdjustedPixels : \A v \in ValuesReadAt(p) :
            /\ AdjustReadIndex(v) = lround(v) - option_.min_disparity
            /\ AdjustReadIndex(v) \in 0 .. (DispRange - 1)


-----------------------------------------------------------------------------
(* The outlier lists from one Match to the next *)

\* The pixels the refiner has in its two lists.
ListedPixels ==
    {refiner_.mismatches_[n] : n \in 1 .. Len(refiner_.mismatches_)}
    \cup {refiner_.occlusions_[n] : n \in 1 .. Len(refiner_.occlusions_)}

\* C22: in every Match, whatever Initialize, Reset and Match calls came before,
\* region voting and interpolation visit only pixels that the left/right check
\* of that Match listed, and every listed pixel lies inside the current width
\* and height: a Match whose options switch the check off and the filling on
\* visits no pixel, and no visit is outside the maps.
C22_ListsOfThisMatch ==
    Matched /\ option_.do_filling =>
        /\ "list" \notin call.ub
        /\ \A pix \in ListedPixels :
              pix[1] \in 0 .. (width_ - 1) /\ pix[2] \in 0 .. (height_ - 1)
        /\ ~option_.do_lr_check => ListedPixels = {}

=============================================================================
